---- MODULE Spec2Model ----
(***************************************************************************)
(* Insta-Mock: the in-memory resource store of internal/server (Engine),   *)
(* its CRUD handlers, ReloadData and the file watcher's reload.            *)
(*                                                                         *)
(* The specifications share the variables:                                 *)
(*   Spec          one request (or one reload) at a time, each handler as  *)
(*                 one action; the data level of the store in full.        *)
(*   SpecList      the list handler on its own, over query parameters.     *)
(*   SpecChaos     one request at a time through the chaos middleware.     *)
(*   SpecWatch     the watcher: its observer, its start, the events.       *)
(*   SpecConc      requests and a reload running concurrently, each        *)
(*                 handler split at its lock operations and memory         *)
(*                 accesses.                                               *)
(*   SpecChaosConc the same requests behind the chaos middleware.          *)
(*   SpecLive      SpecConc under fair scheduling, with a PUT of null.     *)
(*   SpecFile      the tracked file, its notifications, the watch loop     *)
(*                 and Stop.                                               *)
(*   SpecStore     the store as Go slices over backing arrays, GetStore.   *)
(*   SpecDash      the dashboard's Model.Update.                           *)
(*   SpecGen       the generator's ExpandData.                             *)
(***************************************************************************)
EXTENDS Integers, Sequences, FiniteSets, TLC

VARIABLES
    store,      \* Engine.store: resource name -> sequence of records
    routes,     \* resource names that registerRoutes registered handlers for
    nextUuid,   \* number of uuid.New() calls made so far
    crashed,    \* the process died of a run-time panic
    last,       \* the most recent request or reload attempt and its outcome
    nops,       \* requests and reload attempts made so far
    deleted,    \* history: the DELETEs answered 204, no create or reload since
    loaded,     \* history: the resource names of the most recently ingested dataset
    config,     \* EngineConfig: [ChaosMode, ChaosPercent]
    w,          \* the Watcher: [onChange: the observer or "nil", state]
    msgs,       \* the status messages the observer has received
    disk,       \* what the tracked file holds
    events,     \* w.watcher.Events: the notifications sent and not yet received
    loop,       \* the goroutine of Watcher.watch: [pc, event: the one it handles]
    \* the parts checked on their own
    arrays,     \* the backing arrays of the store's slices, by address
    slices,     \* Engine.store as slice headers: resource name -> [arr, len]
    snap,       \* the map GetStore returned: resource name -> [arr, len]
    model,      \* the dashboard's tui.Model: [rows, stats, width, height, quitting]
    gen,        \* ExpandData: [data, count, out: the expanded dataset]
    \* SpecConc: the memory of the engine and its goroutines
    heap,       \* the map objects (records) by address
    refs,       \* Engine.store as memory: resource name -> sequence of addresses
    mu,         \* Engine.mu: [writer: its holder or 0, readers: the holders of RLock]
    pc,         \* where each goroutine is in its handler
    loc,        \* each goroutine's request, locals and response
    lin,        \* history: the store as the operations that took the lock so far
                \* leave it when applied one at a time in lock order
    hist,       \* history: every value each map object has had
    raced       \* history: a record was read while a writer was modifying it

conc == <<heap, refs, mu, pc, loc, lin, hist, raced>>
fsys == <<disk, events, loop>>
units == <<arrays, slices, snap, model, gen>>
env  == <<config, w, msgs, fsys, units>>
vars == <<store, routes, nextUuid, crashed, last, nops, deleted, loaded, conc, env>>

(***************************************************************************)
(* Bounds of the model.                                                    *)
(***************************************************************************)
\* requests and reload attempts after construction
MaxOps == 3
\* the bits of a Go int the model keeps (the arithmetic wraps as it does at 64)
IntBits == 5
\* uuid.New() calls the model follows
MaxUuid == 4
\* request goroutines running concurrently (SpecConc), beside the watcher
MaxProcs == 2

(***************************************************************************)
(* JSON values.  A string is a sequence of characters; a value is its Go   *)
(* dynamic type and its text.                                              *)
(***************************************************************************)
sAna == <<"A", "n", "a">>
sBob == <<"B", "o", "b">>
s1   == <<"1">>
s2   == <<"2">>
s30  == <<"3", "0">>
sAdm == <<"a", "d", "m">>
sNil == <<"<", "n", "i", "l", ">">>

JStr(s) == [t |-> "string", v |-> s]
JNum(s) == [t |-> "float64", v |-> s]
JNull   == [t |-> "nil", v |-> <<>>]

\* fmt.Sprintf("%v", v)
Sprintf(v) == IF v.t = "nil" THEN sNil ELSE v.v

\* uuid.New().String() of the n-th call: a string no other call and no client
\* literal yields
uuidChars == <<"a", "b", "c", "d", "e", "f", "g", "h", "i", "j">>
uuidString(n) == <<"u", uuidChars[n]>>

\* a JSON object: field name -> value
EmptyObj == [k \in {} |-> JNull]
HasKey(m, k) == k \in DOMAIN m
\* m[k] = v
SetKey(m, k, v) == [x \in (DOMAIN m) \cup {k} |-> IF x = k THEN v ELSE m[x]]

\* top-level values of a dataset, and the elements of its arrays
TArr(items) == [t |-> "array", items |-> items]
TObj(m)     == [t |-> "object", m |-> m]
TScalar     == [t |-> "scalar"]

(***************************************************************************)
(* Strings and integers as the list handler uses them.                     *)
(***************************************************************************)
\* the byte of a character
Code ==
    [c \in {"+", "-", "0", "1", "2", "3", "4", "5", "6", "7", "8",
            "9", "<", ">", "A", "B", "N", "O", "a", "b", "c", "d",
            "e", "f", "g", "h", "i", "j", "l", "m", "n", "o", "u",
            "x"} |->
        CASE c = "+" -> 43 [] c = "-" -> 45 [] c = "0" -> 48
          [] c = "1" -> 49 [] c = "2" -> 50 [] c = "3" -> 51
          [] c = "4" -> 52 [] c = "5" -> 53 [] c = "6" -> 54
          [] c = "7" -> 55 [] c = "8" -> 56 [] c = "9" -> 57
          [] c = "<" -> 60 [] c = ">" -> 62 [] c = "A" -> 65
          [] c = "B" -> 66 [] c = "N" -> 78 [] c = "O" -> 79
          [] c = "a" -> 97 [] c = "b" -> 98 [] c = "c" -> 99
          [] c = "d" -> 100 [] c = "e" -> 101 [] c = "f" -> 102
          [] c = "g" -> 103 [] c = "h" -> 104 [] c = "i" -> 105
          [] c = "j" -> 106 [] c = "l" -> 108 [] c = "m" -> 109
          [] c = "n" -> 110 [] c = "o" -> 111 [] c = "u" -> 117
          [] c = "x" -> 120]

\* strings.ToLower, on one character and on a string
Lower(c) ==
    CASE c = "A" -> "a" [] c = "B" -> "b" [] c = "N" -> "n" [] c = "O" -> "o"
      [] OTHER -> c
ToLower(s) == [i \in 1..Len(s) |-> Lower(s[i])]

\* strings.Contains(s, substr)
Contains(s, substr) ==
    \E i \in 0..(Len(s) - Len(substr)) : SubSeq(s, i + 1, i + Len(substr)) = substr

\* vi < vj on Go strings: byte-wise lexicographic
RECURSIVE StrLess(_, _)
StrLess(a, b) ==
    IF b = <<>> THEN FALSE
    ELSE IF a = <<>> THEN TRUE
    ELSE IF Head(a) # Head(b) THEN Code[Head(a)] < Code[Head(b)]
    ELSE StrLess(Tail(a), Tail(b))

\* the range of int
MaxInt == 2 ^ (IntBits - 1) - 1
MinInt == 0 - 2 ^ (IntBits - 1)

\* the result of int arithmetic: the low bits, two's complement
Wrap(x) == ((x - MinInt) % (2 ^ IntBits)) + MinInt

IsDigit(c) == Code[c] >= 48 /\ Code[c] <= 57

\* the digits of a decimal numeral as a magnitude, cut off above the range
RECURSIVE Magnitude(_, _)
Magnitude(ds, acc) ==
    IF ds = <<>> THEN acc
    ELSE IF acc > MaxInt + 1 THEN acc
    ELSE Magnitude(Tail(ds), 10 * acc + (Code[Head(ds)] - 48))

\* n, _ := strconv.Atoi(s): 0 on a syntax error, the nearest bound of int on a
\* range error
Atoi(s) ==
    LET signed == s # <<>> /\ Head(s) \in {"+", "-"}
        neg    == s # <<>> /\ Head(s) = "-"
        ds     == IF signed THEN Tail(s) ELSE s
        mag    == Magnitude(ds, 0)
    IN  IF ds = <<>> \/ \E i \in 1..Len(ds) : ~IsDigit(ds[i]) THEN 0
        ELSE IF neg THEN (IF mag > MaxInt + 1 THEN MinInt ELSE 0 - mag)
        ELSE (IF mag > MaxInt THEN MaxInt ELSE mag)

\* strconv.Itoa(n)
RECURSIVE ItoaNat(_)
ItoaNat(n) ==
    LET d == <<"0", "1", "2", "3", "4", "5", "6", "7", "8", "9">>[(n % 10) + 1]
    IN  IF n < 10 THEN <<d>> ELSE Append(ItoaNat(n \div 10), d)
Itoa(n) == IF n < 0 THEN <<"-">> \o ItoaNat(0 - n) ELSE ItoaNat(n)

(***************************************************************************)
(* encoding/json: json.Unmarshal(text, &m) with m a map[string]interface{} *)
(* (Watcher.reload, and fiber's BodyParser for a JSON body).  A text is    *)
(* malformed, or one JSON value.  null leaves m nil and is no error; an    *)
(* array or a scalar is a type error.                                      *)
(***************************************************************************)
TextBad      == [k |-> "malformed", m |-> EmptyObj]
TextArray    == [k |-> "array", m |-> EmptyObj]
TextScalar   == [k |-> "scalar", m |-> EmptyObj]
TextNull     == [k |-> "null", m |-> EmptyObj]
TextObj(m)   == [k |-> "object", m |-> m]

\* [err: the call failed, isnil: m is the nil map, m: the decoded map]
Unmarshal(text) ==
    CASE text.k = "object" -> [err |-> FALSE, isnil |-> FALSE, m |-> text.m]
      [] text.k = "null"   -> [err |-> FALSE, isnil |-> TRUE,  m |-> EmptyObj]
      [] OTHER             -> [err |-> TRUE,  isnil |-> TRUE,  m |-> EmptyObj]

(***************************************************************************)
(* The store.                                                              *)
(***************************************************************************)
EmptyStore == [r \in {} |-> <<>>]

\* e.store[resource]: the nil slice when the key is absent
Coll(st, resource) == IF resource \in DOMAIN st THEN st[resource] ELSE <<>>

\* ensureID with the uuid generated once and reused
ensureIDOnce(m, n) == IF HasKey(m, "id") THEN m ELSE SetKey(m, "id", JStr(uuidString(1)))

\* ensureID giving every record a generated id, whether it has one or not
ensureIDAlways(m, n) == SetKey(m, "id", JStr(uuidString(n)))

\* if _, hasID := m["id"]; !hasID { m["id"] = uuid.New().String() }, as the n-th
\* uuid.New() call
ensureID(m, n) == IF HasKey(m, "id") THEN m ELSE SetKey(m, "id", JStr(uuidString(n)))

\* uuid.New() calls ensureID makes on m
uuidCalls(m) == IF HasKey(m, "id") THEN 0 ELSE 1

\* the loop over the elements of a top-level array: non-objects are skipped
RECURSIVE normalizeItems(_, _)
normalizeItems(v, n) ==
    IF v = <<>> THEN [items |-> <<>>, n |-> n]
    ELSE LET item == Head(v) IN
         IF item.t # "object" THEN normalizeItems(Tail(v), n)
         ELSE LET c == uuidCalls(item.m)
                  r == normalizeItems(Tail(v), n + c)
              IN  [items |-> <<ensureID(item.m, n + 1)>> \o r.items, n |-> r.n]

\* for key, value := range data { switch v := value.(type) ... }: the keys in
\* some order (Go's map order; it decides only which uuid goes where)
RECURSIVE normalizeKeys(_, _, _, _)
normalizeKeys(data, keys, st, n) ==
    IF keys = {} THEN [store |-> st, n |-> n]
    ELSE LET key   == CHOOSE k \in keys : TRUE
             value == data[key]
         IN  CASE value.t = "array" ->
                    LET r == normalizeItems(value.items, n)
                    IN  normalizeKeys(data, keys \ {key}, SetKey(st, key, r.items), r.n)
               [] value.t = "object" ->
                    normalizeKeys(data, keys \ {key},
                                  SetKey(st, key, <<ensureID(value.m, n + 1)>>),
                                  n + uuidCalls(value.m))
               [] OTHER -> normalizeKeys(data, keys \ {key}, st, n)

\* the ingestion that makes a resource of every top-level key
normalizeDataEveryKey(data, st, n) ==
    LET r == normalizeKeys(data, DOMAIN data, st, n)
    IN  [store |-> [key \in DOMAIN data |-> Coll(r.store, key)], n |-> r.n]

\* Engine.normalizeData on the store st (NewEngineWithConfig: the empty store)
normalizeData(data, st, n) == normalizeKeys(data, DOMAIN data, st, n)

\* Engine.ReloadData between Lock and Unlock: e.store = make(...), then the same
\* loop; a nil map has no keys
ReloadData(data, n) == normalizeKeys(data, DOMAIN data, EmptyStore, n)

\* the scan keeping the last match instead of returning at the first
FindLastByID(items, id) ==
    LET hits == {i \in 1..Len(items) : HasKey(items[i], "id") /\ Sprintf(items[i]["id"]) = id}
    IN  IF hits = {} THEN 0 ELSE CHOOSE i \in hits : \A j \in hits : i >= j

\* the first index of items whose id stringifies to id, 0 when there is none
\* (for i, item := range items { if itemID, ok := item["id"]; ok && Sprintf(itemID) == id })
FindByID(items, id) ==
    LET hits == {i \in 1..Len(items) : HasKey(items[i], "id") /\ Sprintf(items[i]["id"]) = id}
    IN  IF hits = {} THEN 0 ELSE CHOOSE i \in hits : \A j \in hits : i <= j

\* the merge loop without its k != "id" test
MergeWithID(item, body) ==
    [x \in (DOMAIN item) \cup (DOMAIN body) |-> IF x \in DOMAIN body THEN body[x] ELSE item[x]]

\* handlePatch's merge loop: for k, v := range body { if k != "id" { item[k] = v } }
Merge(item, body) ==
    [x \in (DOMAIN item) \cup ((DOMAIN body) \ {"id"}) |->
        IF x \in (DOMAIN body) \ {"id"} THEN body[x] ELSE item[x]]

\* the removal that moves the last record into the gap
RemoveSwap(items, i) ==
    IF i = Len(items) THEN SubSeq(items, 1, i - 1)
    ELSE SubSeq(items, 1, i - 1) \o <<items[Len(items)]>> \o SubSeq(items, i + 1, Len(items) - 1)

\* the removal off by one: append(items[:i+1], items[i+2:]...)
RemoveNext(items, i) == SubSeq(items, 1, i) \o SubSeq(items, i + 2, Len(items))

\* append(items[:i], items[i+1:]...)
RemoveAt(items, i) == SubSeq(items, 1, i - 1) \o SubSeq(items, i + 1, Len(items))

(***************************************************************************)
(* Watcher.reload: os.ReadFile, json.Unmarshal, Engine.ReloadData.         *)
(* A file is unreadable or holds a text.                                   *)
(***************************************************************************)
FileUnreadable == [k |-> "unreadable", m |-> EmptyObj]

\* the reload that ingests into the store it finds, without clearing it
reloadInto(file, st, n) ==
    IF file.k = "unreadable" THEN [err |-> TRUE, store |-> st, n |-> n]
    ELSE LET jsonData == Unmarshal(file)
         IN  IF jsonData.err THEN [err |-> TRUE, store |-> st, n |-> n]
             ELSE LET r == normalizeKeys(jsonData.m, DOMAIN jsonData.m, st, n)
                  IN  [err |-> FALSE, store |-> r.store, n |-> r.n]

\* [err: reload returned an error, store, n: the store and the uuid count after it]
reload(file, st, n) ==
    IF file.k = "unreadable" THEN [err |-> TRUE, store |-> st, n |-> n]
    ELSE LET jsonData == Unmarshal(file)
         IN  IF jsonData.err THEN [err |-> TRUE, store |-> st, n |-> n]
             ELSE LET r == ReloadData(jsonData.m, n)
                  IN  [err |-> FALSE, store |-> r.store, n |-> r.n]

(***************************************************************************)
(* Inputs of the model.                                                    *)
(***************************************************************************)
\* the resources requests are sent to ("posts" is only ever ingested)
Names == {"users", "tags"}

bodyBob == [name |-> JStr(sBob)]
bodyDup == [id |-> JStr(s1), name |-> JStr(sBob), age |-> JNum(s30)]
Bodies  == {bodyBob, bodyDup}

\* request bodies as sent
RawBodies == {TextObj(b) : b \in Bodies} \cup {TextNull, TextBad, TextArray, TextScalar}

dataAna  == [users |-> TArr(<<TObj([name |-> JStr(sAna)])>>)]
dataDup  == [users |-> TArr(<<TObj([id |-> JStr(s1), name |-> JStr(sAna)]),
                              TObj([id |-> JNum(s1), name |-> JStr(sBob)])>>),
             posts |-> TObj([name |-> JStr(sBob)])]
dataTags == [tags  |-> TArr(<<TObj([id |-> JStr(s2), name |-> JStr(sAna), role |-> JStr(sAdm)]),
                              TScalar, TObj([id |-> JNull])>>),
             posts |-> TArr(<<>>),
             meta  |-> TScalar]
Datasets == {dataAna, dataDup, dataTags}

\* what the tracked file can hold when a notification is processed
Files == {FileUnreadable, TextBad, TextArray, TextNull} \cup {TextObj(d) : d \in Datasets}

\* the ids a client names for a resource: a literal and the ids stored there
PathIDs(st, resource) ==
    {s1} \cup {Sprintf(m["id"]) : m \in {Coll(st, resource)[i] : i \in 1..Len(Coll(st, resource))}}

(***************************************************************************)
(* Requests and responses.                                                 *)
(***************************************************************************)
NoText == [k |-> "none", m |-> EmptyObj]

\* the query parameters of a request: name -> value; ord is the order in which
\* this run's range over c.Queries() yields the names
NoParams == [k \in {} |-> <<>>]

Req(op, resource, id, raw) ==
    [op |-> op, res |-> resource, id |-> id, raw |-> raw, query |-> NoParams, ord |-> <<>>]
ReqList(resource, params, ord) ==
    [op |-> "LIST", res |-> resource, id |-> <<>>, raw |-> NoText, query |-> params, ord |-> ord]

\* GET /db and GET /health
reqDB     == Req("DB", "", <<>>, NoText)
reqHealth == Req("HEALTH", "", <<>>, NoText)
\* the watcher's error, in the history of SpecWatch
reqError  == Req("ERROR", "", <<>>, NoText)

RespRecord(m)   == [k |-> "record", m |-> m]
RespList(items) == [k |-> "list", items |-> items]
\* a list with the headers X-Total-Count, X-Page, X-Limit
RespPaged(items, total, page, limit) ==
    [k |-> "paged", items |-> items, total |-> total, page |-> page, limit |-> limit]
RespError(e)    == [k |-> "error", error |-> e]
RespEmpty       == [k |-> "empty"]
RespStore(st)   == [k |-> "store", store |-> st]
RespHealth(rs)  == [k |-> "health", resources |-> rs]
RespPanic       == [k |-> "panic"]

\* the outcome of a handler: status, response body, store and uuid count after it,
\* whether it panicked
Out(status, resp, st, n) == [status |-> status, resp |-> resp, store |-> st, n |-> n, panic |-> FALSE]
Panic(st, n) == [status |-> 0, resp |-> RespPanic, store |-> st, n |-> n, panic |-> TRUE]

\* fmt.Sprintf("%s with id '%s' not found", resource, id), as its parts
NotFoundMessage(resource, id) == <<resource, " with id '", id, "' not found">>
RespNotFound(resource, id) ==
    [k |-> "error", error |-> "not_found", message |-> NotFoundMessage(resource, id)]
NotFound(st, n, resource, id) == Out(404, RespNotFound(resource, id), st, n)
InvalidBody(st, n) == Out(400, RespError("invalid_body"), st, n)

\* the lookup comparing the id as a string value, without fmt.Sprintf
handleGetByIDTyped(st, n, resource, id) ==
    LET items == Coll(st, resource)
        hits  == {i \in 1..Len(items) : HasKey(items[i], "id") /\ items[i]["id"] = JStr(id)}
    IN  IF hits # {}
        THEN Out(200, RespRecord(items[CHOOSE i \in hits : \A j \in hits : i <= j]), st, n)
        ELSE NotFound(st, n, resource, id)

\* handleGetByID(resource) on path parameter id
handleGetByID(st, n, resource, id) ==
    LET items == Coll(st, resource)
        i     == FindByID(items, id)
    IN  IF i > 0 THEN Out(200, RespRecord(items[i]), st, n) ELSE NotFound(st, n, resource, id)

\* c.Query(key, def): the value of the parameter, def when it is absent or empty
Query(params, key, def) ==
    IF key \in DOMAIN params /\ params[key] # <<>> THEN params[key] ELSE def

\* search without the ToLower of the query
SearchExact(items, params) ==
    LET q == Query(params, "q", <<>>) IN
    IF q = <<>> THEN items
    ELSE SelectSeq(items, LAMBDA item :
             \E k \in DOMAIN item : Contains(ToLower(Sprintf(item[k])), q))

\* full-text search: if q := c.Query("q"); q != "" { ... }
Search(items, params) ==
    LET q == Query(params, "q", <<>>) IN
    IF q = <<>> THEN items
    ELSE SelectSeq(items, LAMBDA item :
             \E k \in DOMAIN item : Contains(ToLower(Sprintf(item[k])), ToLower(q)))

\* strings.HasPrefix(key, "_") || key == "q", over the parameter names in use
Special(key) == key \in {"q", "_sort", "_order", "_page", "_limit", "_x"}

\* one field filter: the items that have the field with that text
FilterOne(items, key, value) ==
    SelectSeq(items, LAMBDA item : key \in DOMAIN item /\ Sprintf(item[key]) = value)

\* for key, values := range c.Queries() { ... }, the keys coming in the order ord
RECURSIVE Filters(_, _, _)
Filters(items, params, ord) ==
    IF ord = <<>> THEN items
    ELSE LET key == Head(ord) IN
         IF Special(key) THEN Filters(items, params, Tail(ord))
         ELSE IF Len(params[key]) > 0
         THEN Filters(FilterOne(items, key, params[key]), params, Tail(ord))
         ELSE Filters(items, params, Tail(ord))

\* the field a _sort value names
FieldOf(s) ==
    CASE s = <<"n", "a", "m", "e">> -> "name"
      [] s = <<"a", "g", "e">> -> "age"
      [] s = <<"i", "d">> -> "id"
      [] OTHER -> "?"

sDesc == <<"d", "e", "s", "c">>
sAsc  == <<"a", "s", "c">>

\* fmt.Sprintf("%v", items[i][sortField]): a missing field reads as nil
FieldText(item, f) == IF f \in DOMAIN item THEN Sprintf(item[f]) ELSE sNil

\* the comparison with the order test dropped
LessAscending(a, b, f, order) == StrLess(FieldText(a, f), FieldText(b, f))

\* the less function given to sort.Slice
Less(a, b, f, order) ==
    IF order = sDesc THEN StrLess(FieldText(b, f), FieldText(a, f))
    ELSE StrLess(FieldText(a, f), FieldText(b, f))

\* sort.Slice on a short slice is an insertion sort: x sinks from the end while
\* it is less than its left neighbour
RECURSIVE Insert(_, _, _, _)
Insert(sorted, x, f, order) ==
    IF sorted = <<>> \/ ~Less(x, sorted[Len(sorted)], f, order) THEN Append(sorted, x)
    ELSE Append(Insert(SubSeq(sorted, 1, Len(sorted) - 1), x, f, order),
                sorted[Len(sorted)])

RECURSIVE InsertionSort(_, _, _, _)
InsertionSort(sorted, rest, f, order) ==
    IF rest = <<>> THEN sorted
    ELSE InsertionSort(Insert(sorted, Head(rest), f, order), Tail(rest), f, order)

\* if sortField := c.Query("_sort"); sortField != "" { sort.Slice(...) }
Sort(items, params) ==
    LET sortField == Query(params, "_sort", <<>>) IN
    IF sortField = <<>> THEN items
    ELSE InsertionSort(<<>>, items, FieldOf(sortField), Query(params, "_order", sAsc))

\* the pagination block: [panic, paged, items], start and end computed in int
Paginate(items, page, limit) ==
    IF limit > 0
    THEN LET start == IF page > 0 THEN Wrap((page - 1) * limit) ELSE 0
             end   == Wrap(start + limit)
             upto  == IF end > Len(items) THEN Len(items) ELSE end
         IN  IF start > Len(items) THEN [panic |-> FALSE, paged |-> TRUE, items |-> <<>>]
             \* items[start:end] with start < 0 or end < start: slice bounds out of range
             ELSE IF start < 0 \/ upto < start
             THEN [panic |-> TRUE, paged |-> TRUE, items |-> <<>>]
             ELSE [panic |-> FALSE, paged |-> TRUE, items |-> SubSeq(items, start + 1, upto)]
    ELSE [panic |-> FALSE, paged |-> FALSE, items |-> items]

\* the handler sorting the collection itself instead of its copy
handleGetAllInPlace(st, n, resource, params, ord) ==
    LET sorted == IF resource \in DOMAIN st
                  THEN [st EXCEPT ![resource] = Sort(st[resource], params)]
                  ELSE st
        items  == Sort(Filters(Search(Coll(st, resource), params), params, ord), params)
        page   == Atoi(Query(params, "_page", <<"0">>))
        limit  == Atoi(Query(params, "_limit", <<"0">>))
        r      == Paginate(items, page, limit)
    IN  IF r.panic THEN Panic(st, n)
        ELSE IF r.paged
        THEN Out(200, RespPaged(r.items, Itoa(Len(items)), Itoa(page), Itoa(limit)), sorted, n)
        ELSE Out(200, RespList(r.items), sorted, n)

\* handleGetAll(resource) on the query parameters params
handleGetAll(st, n, resource, params, ord) ==
    LET items  == Sort(Filters(Search(Coll(st, resource), params), params, ord), params)
        page   == Atoi(Query(params, "_page", <<"0">>))
        limit  == Atoi(Query(params, "_limit", <<"0">>))
        r      == Paginate(items, page, limit)
    IN  IF r.panic THEN Panic(st, n)
        ELSE IF r.paged
        THEN Out(200, RespPaged(r.items, Itoa(Len(items)), Itoa(page), Itoa(limit)), st, n)
        ELSE Out(200, RespList(r.items), st, n)

\* handleCreate putting the record first
handleCreateFirst(st, n, resource, raw) ==
    LET parsed == Unmarshal(raw) IN
    IF parsed.err THEN InvalidBody(st, n)
    ELSE IF parsed.isnil THEN Panic(st, n + 1)
    ELSE LET body == ensureID(parsed.m, n + 1)
         IN  Out(201, RespRecord(body),
                 SetKey(st, resource, <<body>> \o Coll(st, resource)),
                 n + uuidCalls(parsed.m))

\* handleCreate(resource) on the body raw
handleCreate(st, n, resource, raw) ==
    LET parsed == Unmarshal(raw) IN
    IF parsed.err THEN InvalidBody(st, n)
    ELSE IF parsed.isnil THEN Panic(st, n + 1)     \* body["id"] = ... on a nil map
    ELSE LET body == ensureID(parsed.m, n + 1)
         IN  Out(201, RespRecord(body),
                 SetKey(st, resource, Append(Coll(st, resource), body)),
                 n + uuidCalls(parsed.m))

\* handleUpdate without body["id"] = itemID
handleUpdateBodyID(st, n, resource, id, raw) ==
    LET parsed == Unmarshal(raw)
        items  == Coll(st, resource)
        i      == FindByID(items, id)
    IN  IF parsed.err THEN InvalidBody(st, n)
        ELSE IF i = 0 THEN NotFound(st, n, resource, id)
        ELSE Out(200, RespRecord(parsed.m), [st EXCEPT ![resource][i] = parsed.m], n)

\* handleUpdate(resource) on path parameter id and the body raw
handleUpdate(st, n, resource, id, raw) ==
    LET parsed == Unmarshal(raw)
        items  == Coll(st, resource)
        i      == FindByID(items, id)
    IN  IF parsed.err THEN InvalidBody(st, n)
        ELSE IF i = 0 THEN NotFound(st, n, resource, id)
        ELSE IF parsed.isnil THEN Panic(st, n)     \* body["id"] = itemID on a nil map
        ELSE LET body == SetKey(parsed.m, "id", items[i]["id"])
             IN  Out(200, RespRecord(body), [st EXCEPT ![resource][i] = body], n)

\* handlePatch(resource) on path parameter id and the body raw
handlePatch(st, n, resource, id, raw) ==
    LET parsed == Unmarshal(raw)
        items  == Coll(st, resource)
        i      == FindByID(items, id)
    IN  IF parsed.err THEN InvalidBody(st, n)
        ELSE IF i = 0 THEN NotFound(st, n, resource, id)
        ELSE LET item == Merge(items[i], parsed.m)
             IN  Out(200, RespRecord(item), [st EXCEPT ![resource][i] = item], n)

\* handleDelete dropping the first record where it finds no match
handleDeleteOrFirst(st, n, resource, id) ==
    LET items == Coll(st, resource)
        i     == FindByID(items, id)
    IN  IF i > 0 THEN Out(204, RespEmpty, [st EXCEPT ![resource] = RemoveAt(items, i)], n)
        ELSE IF items # <<>>
        THEN NotFound([st EXCEPT ![resource] = RemoveAt(items, 1)], n, resource, id)
        ELSE NotFound(st, n, resource, id)

\* handleDelete(resource) on path parameter id
handleDelete(st, n, resource, id) ==
    LET items == Coll(st, resource)
        i     == FindByID(items, id)
    IN  IF i > 0 THEN Out(204, RespEmpty, [st EXCEPT ![resource] = RemoveAt(items, i)], n)
        ELSE NotFound(st, n, resource, id)

\* the handler the router runs for a request: the six handlers exist for the
\* resources registerRoutes saw; /db and /health always; anything else is the
\* router's own 404
Dispatch(st, n, rts, req) ==
    CASE req.op = "DB"     -> Out(200, RespStore(st), st, n)
      [] req.op = "HEALTH" -> Out(200, RespHealth(DOMAIN st), st, n)
      [] req.res \notin rts -> Out(404, RespError("no_route"), st, n)
      [] req.op = "LIST"   -> handleGetAll(st, n, req.res, req.query, req.ord)
      [] req.op = "GET"    -> handleGetByID(st, n, req.res, req.id)
      [] req.op = "POST"   -> handleCreate(st, n, req.res, req.raw)
      [] req.op = "PUT"    -> handleUpdate(st, n, req.res, req.id, req.raw)
      [] req.op = "PATCH"  -> handlePatch(st, n, req.res, req.id, req.raw)
      [] req.op = "DELETE" -> handleDelete(st, n, req.res, req.id)

(***************************************************************************)
(* EngineConfig and the chaos middleware (chaos.go).  NewEngineWithConfig  *)
(* installs the middleware before the routes when ChaosMode is set.        *)
(***************************************************************************)
\* EngineConfig{}, what NewEngine passes
DefaultConfig == [ChaosMode |-> FALSE, ChaosPercent |-> 0]

\* rand.Intn(n): a number of [0, n)
Intn(n) == 0..(n - 1)

\* errors := []int{500, 502, 503, 504}, indexed from 0
ChaosErrors == <<500, 502, 503, 504>>

\* fiber.Map{"error": "chaos_error", "message": ..., "status": status}
RespChaos(status) ==
    [k |-> "error", error |-> "chaos_error",
     message |-> "Simulated failure from chaos mode", status |-> status]

\* the middleware failing on every draw but those below failPercent
chaosMiddlewareInverted(failPercent, r, k, st, n, next) ==
    IF r >= failPercent
    THEN Out(ChaosErrors[k + 1], RespChaos(ChaosErrors[k + 1]), st, n)
    ELSE next

\* the middleware answering its status with a body that names another
chaosMiddlewareFixedBody(failPercent, r, k, st, n, next) ==
    IF r < failPercent
    THEN Out(ChaosErrors[k + 1], RespChaos(ChaosErrors[1]), st, n)
    ELSE next

\* chaosMiddleware(failPercent) on one request, after its time.Sleep: r is the
\* draw rand.Intn(100), k the draw rand.Intn(len(errors)), st and n the store
\* and the uuid count as they are, next what c.Next() gives
chaosMiddleware(failPercent, r, k, st, n, next) ==
    IF r < failPercent
    THEN Out(ChaosErrors[k + 1], RespChaos(ChaosErrors[k + 1]), st, n)
    ELSE next

\* the handlers of the app in the order NewEngineWithConfig installs them: the
\* chaos middleware when ChaosMode is set, then the routes
Handle(cfg, r, k, st, n, rts, req) ==
    IF cfg.ChaosMode
    THEN chaosMiddleware(cfg.ChaosPercent, r, k, st, n, Dispatch(st, n, rts, req))
    ELSE Dispatch(st, n, rts, req)

(***************************************************************************)
(* The Watcher.  A path is the sequence of its elements.  Start puts the   *)
(* directory of the tracked file under watch; watch takes the events.      *)
(***************************************************************************)
\* filepath.Base(path), filepath.Dir(path)
Base(path) == path[Len(path)]
Dir(path)  == SubSeq(path, 1, Len(path) - 1)

\* w.filePath, the absolute path NewWatcher computed
filePath == <<"srv", "db.json">>

\* w.onChange != nil: w.onChange(m), the observer receives m
notify(wt, ms, m) == IF wt.onChange # "nil" THEN Append(ms, [to |-> wt.onChange, m |-> m]) ELSE ms

\* the messages of watch, by kind
MsgFailed   == "Reload failed"
MsgReloaded == "Data reloaded successfully"
MsgError    == "Watcher error"

\* Watcher.watch without the comparison of the base names
watchAnyFile(wt, st, n, ms, event, f) ==
    IF event.op \cap {"Write", "Create"} # {}
    THEN LET r == reload(f, st, n)
         IN  [store |-> r.store, n |-> r.n, err |-> r.err,
              msgs |-> notify(wt, ms, IF r.err THEN MsgFailed ELSE MsgReloaded)]
    ELSE [store |-> st, n |-> n, err |-> FALSE, msgs |-> ms]

\* Watcher.watch reporting the failed reloads only
watchFailuresOnly(wt, st, n, ms, event, f) ==
    IF Base(event.name) # Base(wt.filePath) THEN [store |-> st, n |-> n, err |-> FALSE, msgs |-> ms]
    ELSE IF event.op \cap {"Write", "Create"} # {}
    THEN LET r == reload(f, st, n)
         IN  [store |-> r.store, n |-> r.n, err |-> r.err,
              msgs |-> IF r.err THEN notify(wt, ms, MsgFailed) ELSE ms]
    ELSE [store |-> st, n |-> n, err |-> FALSE, msgs |-> ms]

\* the watch that reloads on Create only
watchCreateOnly(wt, st, n, ms, event, f) ==
    IF Base(event.name) # Base(wt.filePath) THEN [store |-> st, n |-> n, err |-> FALSE, msgs |-> ms]
    ELSE IF event.op \cap {"Create"} # {}
    THEN LET r == reload(f, st, n)
         IN  [store |-> r.store, n |-> r.n, err |-> r.err,
              msgs |-> notify(wt, ms, IF r.err THEN MsgFailed ELSE MsgReloaded)]
    ELSE [store |-> st, n |-> n, err |-> FALSE, msgs |-> ms]

\* Watcher.watch on one event of w.watcher.Events, the tracked file holding f
\* when the event is processed: [store, n: the store and the uuid count after
\* it, err: w.reload() returned an error, msgs: the observer's messages]
watch(wt, st, n, ms, event, f) ==
    IF Base(event.name) # Base(wt.filePath) THEN [store |-> st, n |-> n, err |-> FALSE, msgs |-> ms]
    ELSE IF event.op \cap {"Write", "Create"} # {}
    THEN LET r == reload(f, st, n)
         IN  [store |-> r.store, n |-> r.n, err |-> r.err,
              msgs |-> notify(wt, ms, IF r.err THEN MsgFailed ELSE MsgReloaded)]
    ELSE [store |-> st, n |-> n, err |-> FALSE, msgs |-> ms]

NoEvent == [name |-> <<"">>, op |-> {}]

\* the parts checked on their own are not in use
UnitsAtRest ==
    /\ arrays = <<>> /\ slices = <<>> /\ snap = <<>>
    /\ model = <<>>
    /\ gen = <<>>

\* no file is tracked, no notification is pending, watch waits in its select
FsAtRest ==
    /\ disk = NoText
    /\ events = <<>>
    /\ loop = [pc |-> "select", event |-> NoEvent]

\* the engine of NewEngine, a watcher that watches with no observer, no message
EnvAtRest ==
    /\ config = DefaultConfig
    /\ w = [filePath |-> filePath, onChange |-> "nil", state |-> "watching"]
    /\ msgs = <<>>
    /\ FsAtRest
    /\ UnitsAtRest

\* query strings of list requests
s0   == <<"0">>
s3   == <<"3">>
s4   == <<"4">>
s9   == <<"9">>
s99  == <<"9", "9">>
sNeg == <<"-", "1">>
sX   == <<"x">>
sName == <<"n", "a", "m", "e">>

qSortDesc == ("_sort" :> sName) @@ ("_order" :> sDesc)
qPageOne  == ("_page" :> s1) @@ ("_limit" :> s1)

qSearch    == ("q" :> <<"a">>)
qFilter    == ("name" :> sAna)

\* the list requests of Spec: plain, sorted, paged, searched, filtered
SpecQueries == {NoParams, qSortDesc, qPageOne, qSearch, qFilter}

\* the orders in which a range over the parameters can yield their names
Orders(params) ==
    {o \in [1..Cardinality(DOMAIN params) -> DOMAIN params] :
        \A i, j \in DOMAIN o : i # j => o[i] # o[j]}

(***************************************************************************)
(* Spec: one request or reload attempt at a time.                          *)
(***************************************************************************)
\* how many records of items have an id that stringifies to id
Matching(items, id) ==
    Cardinality({i \in 1..Len(items) : HasKey(items[i], "id") /\ Sprintf(items[i]["id"]) = id})

\* history: the sorted list request answered just before, or the file
\* reloaded just before, if any
NoPrev == [k |-> "none"]
Prev(l) ==
    IF l.req.op = "LIST" /\ l.status = 200 /\ "_sort" \in DOMAIN l.req.query
    THEN [k |-> "sorted", res |-> l.req.res, query |-> l.req.query, items |-> l.resp.items]
    ELSE IF l.req.op = "RELOAD" /\ l.resp.k # "error"
    THEN [k |-> "reloaded", raw |-> l.req.raw]
    ELSE NoPrev

\* NewEngineWithConfig(data, config): normalizeData into the empty store, then
\* registerRoutes over the keys of the store
Init ==
    \E data \in Datasets :
        LET r == normalizeData(data, EmptyStore, 0) IN
        /\ store = r.store
        /\ nextUuid = r.n
        /\ routes = DOMAIN r.store
        /\ crashed = FALSE
        /\ last = [req |-> Req("NEW", "", <<>>, TextObj(data)), status |-> 0,
                   resp |-> RespEmpty, pre |-> EmptyStore, del |-> {}, prev |-> NoPrev]
        /\ nops = 0
        /\ deleted = {}
        /\ loaded = DOMAIN r.store
        /\ heap = <<>> /\ refs = <<>> /\ mu = <<>> /\ pc = <<>> /\ loc = <<>>
        /\ lin = <<>> /\ hist = <<>>
        /\ raced = [read |-> FALSE, torn |-> FALSE]
        /\ EnvAtRest

\* the router serves one request
Serve(req) ==
    /\ ~crashed
    /\ nops < MaxOps
    /\ LET o == Dispatch(store, nextUuid, routes, req) IN
        /\ o.n <= MaxUuid
        /\ store' = o.store
        /\ nextUuid' = o.n
        /\ crashed' = o.panic
        /\ last' = [req |-> req, status |-> o.status, resp |-> o.resp, pre |-> store,
                    del |-> deleted, prev |-> Prev(last)]
        /\ deleted' = CASE o.status = 204 ->
                             deleted \cup {[res |-> req.res, id |-> req.id,
                                            only |-> Matching(Coll(store, req.res), req.id) = 1]}
                        [] o.status = 201 -> {}
                        [] OTHER -> deleted
    /\ nops' = nops + 1
    /\ UNCHANGED <<routes, loaded, conc, env>>

\* the list requests and the POST requests of Spec
ListRequests ==
    UNION {{ReqList(r, params, ord) : r \in Names, ord \in Orders(params)} :
           params \in SpecQueries}
PostRequests == {Req("POST", r, <<>>, raw) : r \in Names, raw \in RawBodies}

GetAll  == \E req \in ListRequests : Serve(req)
GetByID == \E r \in Names : \E id \in PathIDs(store, r) : Serve(Req("GET", r, id, NoText))
Create  == \E req \in PostRequests : Serve(req)
Update  == \E r \in Names : \E id \in PathIDs(store, r) : \E raw \in RawBodies :
               Serve(Req("PUT", r, id, raw))
Patch   == \E r \in Names : \E id \in PathIDs(store, r) : \E raw \in RawBodies :
               Serve(Req("PATCH", r, id, raw))
Delete  == \E r \in Names : \E id \in PathIDs(store, r) : Serve(Req("DELETE", r, id, NoText))
GetDB   == Serve(reqDB)
Health  == Serve(reqHealth)

\* Watcher.watch on a Write or Create event for the tracked file, the file
\* holding f when the event is processed
Reload ==
    \E f \in Files :
        /\ ~crashed
        /\ nops < MaxOps
        /\ LET r == reload(f, store, nextUuid) IN
            /\ r.n <= MaxUuid
            /\ store' = r.store
            /\ nextUuid' = r.n
            /\ last' = [req |-> Req("RELOAD", "", <<>>, f), status |-> 0,
                        resp |-> IF r.err THEN RespError("reload_failed") ELSE RespEmpty,
                        pre |-> store, del |-> deleted, prev |-> Prev(last)]
            /\ loaded' = IF r.err THEN loaded ELSE DOMAIN r.store
        /\ deleted' = {}
        /\ nops' = nops + 1
        /\ UNCHANGED <<routes, crashed, conc, env>>

Next == GetAll \/ GetByID \/ Create \/ Update \/ Patch \/ Delete \/ GetDB \/ Health \/ Reload

Spec == Init /\ [][Next]_vars

(***************************************************************************)
(* Claims checked under Spec.  last.pre is the store before the most       *)
(* recent request or reload attempt, store the store after it.             *)
(***************************************************************************)
Served(op) == last.req.op = op /\ last.req.res \in routes

\* the indices of items whose id stringifies to id
Hits(items, id) ==
    {i \in 1..Len(items) : "id" \in DOMAIN items[i] /\ Sprintf(items[i]["id"]) = id}

\* the record a request by id addresses: the first hit (0: none)
Addressed(items, id) ==
    IF Hits(items, id) = {} THEN 0
    ELSE CHOOSE i \in Hits(items, id) : \A j \in Hits(items, id) : i <= j

\* st and pre agree except on position i of resource r
SameExceptAt(st, pre, r, i) ==
    /\ DOMAIN st = DOMAIN pre
    /\ \A x \in DOMAIN pre :
        /\ Len(st[x]) = Len(pre[x])
        /\ \A j \in 1..Len(pre[x]) : (x # r \/ j # i) => st[x][j] = pre[x][j]

\* C5: a reload attempt whose source cannot be read or is not a JSON object
\* fails and leaves the store as it was.
C5_ReloadAllOrNothing ==
    (last.req.op = "RELOAD" /\ last.req.raw.k # "object")
        => (last.resp.k = "error" /\ store = last.pre)

\* C6: after a reload, a list request for any resource of the reloaded dataset
\* is answered 200 with that resource's collection, also when the resource was
\* not in the dataset ingested at startup.
C6_ReloadedResourcesServed ==
    (last.req.op = "LIST" /\ last.req.query = NoParams /\ last.req.res \in loaded)
        => (last.status = 200 /\ last.resp.k = "list"
            /\ last.resp.items = last.pre[last.req.res])

\* C7 as claimed: once DELETE /R/i was answered 204, and no create or reload
\* followed, GET /R/i and DELETE /R/i are answered 404.
C7_DeleteThenGet ==
    (last.req.op \in {"GET", "DELETE"}
     /\ \E d \in last.del : d.res = last.req.res /\ d.id = last.req.id)
        => last.status = 404

\* C7 amended: the same, for a DELETE /R/i that found exactly one record of R
\* with id i (ids are not unique; DELETE removes the first match only).
C7_DeleteThenGetUnique ==
    (last.req.op \in {"GET", "DELETE"}
     /\ \E d \in last.del : d.res = last.req.res /\ d.id = last.req.id /\ d.only)
        => (last.status = 404 /\ last.resp.k = "error" /\ last.resp.error = "not_found")

C7_Witness ==
    /\ last.req.op = "GET"
    /\ \E d \in last.del : d.res = last.req.res /\ d.id = last.req.id /\ d.only
    /\ Len(Coll(store, last.req.res)) > 0

\* C8: PATCH /R/:id with an object body B, X the record of R the id addresses:
\* 200; the stored record is X with every key of B but id set to B's value,
\* every other key of X and id as in X; nothing else in the store changes.
C8_PatchIsMerge ==
    (Served("PATCH") /\ last.req.raw.k = "object"
     /\ Addressed(Coll(last.pre, last.req.res), last.req.id) > 0)
        => LET r == last.req.res
               i == Addressed(last.pre[r], last.req.id)
               X == last.pre[r][i]
               B == last.req.raw.m
               Y == store[r][i]
           IN  /\ last.status = 200
               /\ SameExceptAt(store, last.pre, r, i)
               /\ DOMAIN Y = (DOMAIN X) \cup (DOMAIN B)
               /\ \A k \in DOMAIN Y :
                    Y[k] = IF k \in DOMAIN B /\ k # "id" THEN B[k] ELSE X[k]
               /\ last.resp.k = "record" /\ last.resp.m = Y

\* a PATCH that overwrote a key, added a key, kept a key and ignored the body's id
C8_Witness ==
    /\ Served("PATCH") /\ last.status = 200 /\ last.req.raw.k = "object"
    /\ LET r == last.req.res
           i == Addressed(last.pre[r], last.req.id)
           X == last.pre[r][i]
           B == last.req.raw.m
       IN  /\ "id" \in DOMAIN B /\ B["id"] # X["id"]
           /\ \E k \in DOMAIN B : k \notin DOMAIN X
           /\ \E k \in DOMAIN X : k \notin DOMAIN B
           /\ \E k \in (DOMAIN B) \cap (DOMAIN X) : k # "id" /\ B[k] # X[k]
           /\ Len(last.pre[r]) > 1

\* C9: PUT /R/:id with an object body B, X the record of R the id addresses:
\* 200; the record at X's position is B with id forced to X's id, the fields of
\* X that B lacks are gone; nothing else in the store changes.
C9_ReplaceKeepsID ==
    (Served("PUT") /\ last.req.raw.k = "object"
     /\ Addressed(Coll(last.pre, last.req.res), last.req.id) > 0)
        => LET r == last.req.res
               i == Addressed(last.pre[r], last.req.id)
               X == last.pre[r][i]
               B == last.req.raw.m
               Y == store[r][i]
           IN  /\ last.status = 200
               /\ SameExceptAt(store, last.pre, r, i)
               /\ DOMAIN Y = (DOMAIN B) \cup {"id"}
               /\ Y["id"] = X["id"]
               /\ \A k \in (DOMAIN B) \ {"id"} : Y[k] = B[k]
               /\ last.resp.k = "record" /\ last.resp.m = Y

\* a PUT whose body carried another id and lacked a field of the record
C9_Witness ==
    /\ Served("PUT") /\ last.status = 200 /\ last.req.raw.k = "object"
    /\ LET r == last.req.res
           i == Addressed(last.pre[r], last.req.id)
           X == last.pre[r][i]
           B == last.req.raw.m
       IN  /\ "id" \in DOMAIN B /\ B["id"] # X["id"]
           /\ \E k \in DOMAIN X : k \notin DOMAIN B
           /\ Len(last.pre[r]) > 1

IsObject(e) == e.t = "object"

\* the record Y stored at position i of resource r for the ingested or posted
\* object B: B itself when B has an id, else B plus a generated id that is a
\* non-empty string and the id of no other stored record
StoredWithID(B, Y, r, i) ==
    IF "id" \in DOMAIN B THEN Y = B
    ELSE /\ DOMAIN Y = (DOMAIN B) \cup {"id"}
         /\ \A k \in DOMAIN B : Y[k] = B[k]
         /\ Y["id"].t = "string" /\ Y["id"].v # <<>>
         /\ \A x \in DOMAIN store : \A j \in 1..Len(store[x]) :
                (x # r \/ j # i) =>
                    ("id" \in DOMAIN store[x][j] => Sprintf(store[x][j]["id"]) # Sprintf(Y["id"]))

\* C10: every object ingested at startup or by a reload, and every POST body,
\* is stored with its own id when it has one, and else with a generated
\* non-empty string id that no other record of the store has.
C10_AutoID ==
    /\ (Served("POST") /\ last.req.raw.k = "object")
        => /\ last.status = 201
           /\ Len(store[last.req.res]) = Len(Coll(last.pre, last.req.res)) + 1
           /\ StoredWithID(last.req.raw.m, store[last.req.res][Len(store[last.req.res])],
                           last.req.res, Len(store[last.req.res]))
    /\ (last.req.op \in {"NEW", "RELOAD"} /\ last.req.raw.k = "object")
        => \A key \in DOMAIN last.req.raw.m :
            LET v == last.req.raw.m[key] IN
            /\ v.t = "array" =>
                LET objs == SelectSeq(v.items, IsObject) IN
                /\ key \in DOMAIN store
                /\ Len(store[key]) = Len(objs)
                /\ \A i \in 1..Len(objs) : StoredWithID(objs[i].m, store[key][i], key, i)
            /\ v.t = "object" =>
                /\ key \in DOMAIN store
                /\ Len(store[key]) = 1
                /\ StoredWithID(v.m, store[key][1], key, 1)

\* a POST without id stored next to records with generated ids
C10_Witness ==
    /\ Served("POST") /\ last.status = 201
    /\ "id" \notin DOMAIN last.req.raw.m
    /\ \E x \in DOMAIN last.pre : \E j \in 1..Len(last.pre[x]) :
            last.pre[x][j]["id"].t = "string" /\ Head(last.pre[x][j]["id"].v) = "u"

\* a reload that ingested objects with and without id
C10_WitnessReload ==
    /\ last.req.op = "RELOAD" /\ last.req.raw.k = "object"
    /\ \E key \in DOMAIN last.req.raw.m :
            /\ last.req.raw.m[key].t = "object"
            /\ "id" \notin DOMAIN last.req.raw.m[key].m
    /\ \E key \in DOMAIN last.req.raw.m :
            /\ last.req.raw.m[key].t = "array"
            /\ \E i \in 1..Len(last.req.raw.m[key].items) :
                    /\ last.req.raw.m[key].items[i].t = "object"
                    /\ "id" \in DOMAIN last.req.raw.m[key].items[i].m

\* every resource but r is as it was
OthersUnchanged(r) ==
    /\ (DOMAIN store) \ {r} = (DOMAIN last.pre) \ {r}
    /\ \A x \in (DOMAIN last.pre) \ {r} : store[x] = last.pre[x]

\* C21: POST /R with an object body answers 201 with the stored record; R's
\* collection is then its previous sequence, in the same order, followed by
\* that one record; every other resource is unchanged.
C21_CreateAppends ==
    (Served("POST") /\ last.req.raw.k = "object")
        => LET r == last.req.res IN
           /\ last.status = 201 /\ last.resp.k = "record"
           /\ r \in DOMAIN store
           /\ Len(store[r]) = Len(Coll(last.pre, r)) + 1
           /\ \A i \in 1..Len(Coll(last.pre, r)) : store[r][i] = last.pre[r][i]
           /\ store[r][Len(store[r])] = last.resp.m
           /\ OthersUnchanged(r)

\* a POST to a collection of two records or more, another resource beside it
C21_Witness ==
    /\ Served("POST") /\ last.status = 201
    /\ Len(Coll(last.pre, last.req.res)) >= 2
    /\ \E x \in DOMAIN last.pre : x # last.req.res /\ last.pre[x] # <<>>

\* C22: DELETE /R/:id answered 204 leaves R's collection as its previous
\* sequence without the first record matching the id, the others in their
\* previous relative order; every other resource is unchanged.
C22_DeleteRemovesOne ==
    (Served("DELETE") /\ last.status = 204)
        => LET r   == last.req.res
               pre == Coll(last.pre, r)
               i   == Addressed(pre, last.req.id)
           IN  /\ i > 0
               /\ r \in DOMAIN store
               /\ Len(store[r]) = Len(pre) - 1
               /\ \A j \in 1..Len(store[r]) :
                    store[r][j] = IF j < i THEN pre[j] ELSE pre[j + 1]
               /\ OthersUnchanged(r)

\* a DELETE that took a record from the middle of three or more
C22_Witness ==
    /\ Served("DELETE") /\ last.status = 204
    /\ LET pre == last.pre[last.req.res]
           i   == Addressed(pre, last.req.id)
       IN  /\ Len(pre) >= 3 /\ i > 1 /\ i < Len(pre)
           /\ pre[i - 1] # pre[i + 1]

\* the top-level keys of a dataset whose value is an array or an object
ResourceKeys(data) == {key \in DOMAIN data : data[key].t \in {"array", "object"}}

\* the objects a top-level value holds, in order
ObjectsOf(v) ==
    CASE v.t = "array"  -> LET objs == SelectSeq(v.items, IsObject)
                           IN  [i \in 1..Len(objs) |-> objs[i].m]
      [] v.t = "object" -> <<v.m>>
      [] OTHER          -> <<>>

\* record Y is object B, with an id added when B has none
IsRecordOf(Y, B) ==
    /\ (DOMAIN B) \subseteq (DOMAIN Y)
    /\ (DOMAIN Y) \subseteq (DOMAIN B) \cup {"id"}
    /\ \A k \in DOMAIN B : Y[k] = B[k]

\* st is what ingesting the dataset gives
Ingested(data, st) ==
    /\ DOMAIN st = ResourceKeys(data)
    /\ \A key \in ResourceKeys(data) :
        /\ Len(st[key]) = Len(ObjectsOf(data[key]))
        /\ \A i \in 1..Len(st[key]) : IsRecordOf(st[key][i], ObjectsOf(data[key])[i])

C23_WitnessObject ==
    /\ last.req.op = "RELOAD" /\ last.req.raw.k = "object"
    /\ \E key \in DOMAIN last.req.raw.m : last.req.raw.m[key].t = "object"

\* the records of a store
RecordsOf(st) == UNION {{st[x][j] : j \in 1..Len(st[x])} : x \in DOMAIN st}

\* the dataset a file holds: JSON null decodes to the map without keys
DatasetOf(file) == IF file.k = "object" THEN file.m ELSE [key \in {} |-> TScalar]

\* C24: after a successful reload the store is the normalization of the new
\* dataset and nothing else: every resource and every record of the store
\* comes from the new dataset, whatever the store held before.
C24_ReloadReplaces ==
    (last.req.op = "RELOAD" /\ last.resp.k # "error")
        => LET data == DatasetOf(last.req.raw) IN
           /\ DOMAIN store \subseteq DOMAIN data
           /\ \A x \in (DOMAIN last.pre) \ ResourceKeys(data) : x \notin DOMAIN store
           /\ \A x \in DOMAIN store :
                /\ data[x].t \in {"array", "object"}
                /\ Len(store[x]) = Len(ObjectsOf(data[x]))
                /\ \A j \in 1..Len(store[x]) :
                        /\ IsRecordOf(store[x][j], ObjectsOf(data[x])[j])
                        /\ (\A y \in ResourceKeys(data) :
                                \A i \in 1..Len(ObjectsOf(data[y])) :
                                    ~IsRecordOf(store[x][j], ObjectsOf(data[y])[i]))
                             => store[x][j] \notin RecordsOf(last.pre)

\* a reload over a store that requests had changed: a resource and a record of
\* the store before are gone
C24_Witness ==
    /\ last.req.op = "RELOAD" /\ last.resp.k # "error"
    /\ nops >= 2
    /\ \E x \in DOMAIN last.pre : x \notin DOMAIN store
    /\ \E Y \in RecordsOf(last.pre) : Y \notin RecordsOf(store)
    /\ store # <<>>

\* the requests that read: list, get by id, /db, /health
IsQuery(op) == op \in {"LIST", "GET", "DB", "HEALTH"}

\* C31: a GET request (list with q, field filters, _sort, _order, _page,
\* _limit; get by id; /db; /health) leaves the store as it was: same
\* resources, same records, same order.
C31_QueriesNotStored ==
    IsQuery(last.req.op) => store = last.pre

\* a sorted list answered in another order than the stored one
C31_Witness ==
    /\ Served("LIST") /\ last.status = 200
    /\ "_sort" \in DOMAIN last.req.query
    /\ Len(last.resp.items) >= 2
    /\ last.resp.items # last.pre[last.req.res]
    /\ store = last.pre

\* a paged list answered with fewer records than stored
C31_WitnessPaged ==
    /\ Served("LIST") /\ last.status = 200
    /\ "_limit" \in DOMAIN last.req.query
    /\ Len(last.resp.items) < Len(last.pre[last.req.res])

\* the last request was refused: 404 not_found of PUT, PATCH, DELETE or 400
\* invalid_body of POST, PUT, PATCH
Rejected ==
    /\ last.resp.k = "error"
    /\ \/ /\ last.req.op \in {"PUT", "PATCH", "DELETE"}
          /\ last.status = 404 /\ last.resp.error = "not_found"
       \/ /\ last.req.op \in {"POST", "PUT", "PATCH"}
          /\ last.status = 400 /\ last.resp.error = "invalid_body"

\* C33: a PUT, PATCH or DELETE answered 404 not_found and a POST, PUT or PATCH
\* answered 400 invalid_body leave every collection of the store as it was:
\* same records, same field values, same order.
C33_RejectedChangesNothing ==
    Rejected => store = last.pre

\* a DELETE answered 404 on a collection that holds records
C33_Witness ==
    /\ Rejected /\ last.req.op = "DELETE" /\ last.status = 404
    /\ Coll(last.pre, last.req.res) # <<>>

\* a PUT answered 400 on a record that exists
C33_WitnessInvalid ==
    /\ Rejected /\ last.req.op = "PUT" /\ last.status = 400
    /\ FindByID(Coll(last.pre, last.req.res), last.req.id) > 0

\* C34: CRUD operations never change the set of resource names: in every
\* state the resource names of the store are the array- or object-valued keys
\* of the dataset ingested last (loaded); a POST to a resource that a reload
\* removed does not create it again.
C34_ResourceNamesFixed ==
    DOMAIN store = loaded

\* C34 for the requests other than POST: they leave the resource names alone
C34_NamesFixedButCreate ==
    (last.req.op \notin {"NEW", "RELOAD", "POST"}) => DOMAIN store = DOMAIN last.pre

\* a POST has put back a resource that the last reload removed
C34_Recreated ==
    /\ Served("POST") /\ last.status = 201
    /\ last.req.res \notin loaded
    /\ last.req.res \in DOMAIN store
    /\ last.req.res \notin DOMAIN last.pre

\* the last two steps were successful reloads of the same source, nothing
\* in between: last.pre is the store after the first
TwiceInARow ==
    /\ last.req.op = "RELOAD" /\ last.resp.k # "error" /\ last.req.raw.k = "object"
    /\ last.prev.k = "reloaded" /\ last.prev.raw = last.req.raw

\* C35: reloading the same valid source twice in a row gives the same store
\* after the second reload as after the first, the ids of the records that
\* have no id in the source included.
C35_ReloadIdempotent ==
    TwiceInARow => store = last.pre

\* C35 as the code has it: the second reload gives the same resources, the
\* same records in the same order with the same fields; a record with an id
\* in the source keeps it, a record without gets a newly generated id at each
\* reload.
C35_ReloadIdempotentButIDs ==
    TwiceInARow
        => LET data == last.req.raw.m IN
           /\ DOMAIN store = DOMAIN last.pre
           /\ \A x \in DOMAIN store :
                /\ Len(store[x]) = Len(last.pre[x])
                /\ Len(store[x]) = Len(ObjectsOf(data[x]))
                /\ \A j \in 1..Len(store[x]) :
                     LET Y == store[x][j]
                         X == last.pre[x][j]
                         B == ObjectsOf(data[x])[j]
                     IN  /\ DOMAIN Y = DOMAIN X
                         /\ \A k \in (DOMAIN Y) \ {"id"} : Y[k] = X[k] /\ Y[k] = B[k]
                         /\ IF "id" \in DOMAIN B
                            THEN Y["id"] = B["id"] /\ X["id"] = B["id"]
                            ELSE Y["id"] # X["id"]

\* the source holds a record with an id and a record without
C35_Witness ==
    /\ TwiceInARow
    /\ \E x, y \in DOMAIN store :
        /\ \E j \in 1..Len(store[x]) : "id" \in DOMAIN ObjectsOf(last.req.raw.m[x])[j]
        /\ \E j \in 1..Len(store[y]) : "id" \notin DOMAIN ObjectsOf(last.req.raw.m[y])[j]

(***************************************************************************)
(* SpecChaos: an engine built with a configuration out of ChaosConfigs     *)
(* serves one request at a time.                                           *)
(***************************************************************************)
\* the values of ChaosPercent: never, half of the draws, always
Percents == {0, 50, 100}

ChaosConfigs ==
    {[ChaosMode |-> FALSE, ChaosPercent |-> 50]}
    \cup {[ChaosMode |-> TRUE, ChaosPercent |-> p] : p \in Percents}

\* the draws rand.Intn(100) that the model follows: the ends of [0, 50) and of
\* [50, 100)
Draws == {r \in Intn(100) : r \in {0, 49, 50, 99}}

ChaosRequests ==
    {Req("LIST", "users", <<>>, NoText), Req("GET", "users", s1, NoText),
     Req("DB", "", <<>>, NoText), Req("HEALTH", "", <<>>, NoText),
     Req("DELETE", "users", s1, NoText), Req("GET", "tags", s1, NoText)}
    \cup {Req("POST", "users", <<>>, raw) : raw \in {TextObj(bodyBob), TextNull, TextBad}}
    \cup {Req("PUT", "users", s1, TextObj(bodyDup)), Req("PATCH", "users", s1, TextObj(bodyBob))}

InitChaos ==
    LET r == normalizeData(dataDup, EmptyStore, 0) IN
    /\ store = r.store
    /\ nextUuid = r.n
    /\ routes = DOMAIN r.store
    /\ crashed = FALSE
    /\ last = [req |-> Req("NEW", "", <<>>, TextObj(dataDup)), status |-> 0,
               resp |-> RespEmpty, pre |-> EmptyStore, n |-> 0, draw |-> 0]
    /\ nops = 0
    /\ deleted = {}
    /\ loaded = DOMAIN r.store
    /\ heap = <<>> /\ refs = <<>> /\ mu = <<>> /\ pc = <<>> /\ loc = <<>>
    /\ lin = <<>> /\ hist = <<>>
    /\ raced = [read |-> FALSE, torn |-> FALSE]
    /\ config \in ChaosConfigs
    /\ w = [filePath |-> filePath, onChange |-> "nil", state |-> "watching"]
    /\ msgs = <<>>
    /\ FsAtRest
    /\ UnitsAtRest

\* one request through the app; last keeps the draw and the uuid count before
Request ==
    \E req \in ChaosRequests : \E r \in Draws : \E k \in Intn(Len(ChaosErrors)) :
        LET o == Handle(config, r, k, store, nextUuid, routes, req) IN
        /\ ~crashed
        /\ nops < MaxOps
        /\ o.n <= MaxUuid
        /\ store' = o.store
        /\ nextUuid' = o.n
        /\ crashed' = o.panic
        /\ last' = [req |-> req, status |-> o.status, resp |-> o.resp, pre |-> store,
                    n |-> nextUuid, draw |-> r]
        /\ nops' = nops + 1
        /\ UNCHANGED <<routes, deleted, loaded, conc, env>>

NextChaos == Request

SpecChaos == InitChaos /\ [][NextChaos]_vars

\* the most recent request was short-circuited by the chaos middleware
ShortCircuited == last.resp.k = "error" /\ last.resp.error = "chaos_error"

\* C26: with the draw r out of 0..99 a request is short-circuited iff
\* r < ChaosPercent: never with 0, always with 100; a request that is not
\* short-circuited gets what the route handler gives for it.
C26_FaultDecision ==
    (last.req.op # "NEW" /\ config.ChaosMode)
        => /\ last.draw \in 0..99
           /\ ShortCircuited <=> last.draw < config.ChaosPercent
           /\ config.ChaosPercent = 0 => ~ShortCircuited
           /\ config.ChaosPercent = 100 => ShortCircuited
           /\ ~ShortCircuited =>
                LET o == Dispatch(last.pre, last.n, routes, last.req) IN
                /\ last.status = o.status /\ last.resp = o.resp
                /\ store = o.store /\ crashed = o.panic

\* requests on either side of the decision: draw 49 short-circuited and draw
\* 50 passed on to a handler that changed the store
C26_Witness ==
    /\ config.ChaosMode /\ config.ChaosPercent = 50
    /\ last.req.op = "POST" /\ last.draw = 50 /\ last.status = 201
    /\ store # last.pre

C26_WitnessShort ==
    /\ config.ChaosMode /\ config.ChaosPercent = 50
    /\ last.req.op = "POST" /\ last.draw = 49 /\ ShortCircuited

\* C27: a short-circuited response has a status out of 500, 502, 503, 504 and
\* a JSON error body of kind chaos_error that repeats the status; the
\* injector answers with no other status.
C27_FaultResponse ==
    ShortCircuited
        => /\ last.status \in {500, 502, 503, 504}
           /\ last.resp.status = last.status
           /\ last.resp.k = "error" /\ last.resp.error = "chaos_error"
           /\ config.ChaosMode

\* a short-circuited response with a status other than the first of the set
C27_Witness == ShortCircuited /\ last.status = 504 /\ last.resp.status = 504

(***************************************************************************)
(* SpecWatch: NewWatcher, SetOnChange, Start, and then the events that the *)
(* watched directory sends, one at a time.                                 *)
(***************************************************************************)
\* the functions given to SetOnChange
Observers == {"nil", "f", "g"}

\* event.Name: the files of the watched directory that change
EventNames == {Dir(filePath) \o <<b>> : b \in {"db.json", "db.json~", "notes.txt"}}

\* event.Op: the bits of an fsnotify event
EventOps == {{"Write"}, {"Create"}, {"Chmod"}, {"Remove"}, {"Write", "Chmod"}}

\* what the tracked file holds when an event is processed
WatchFiles == {FileUnreadable, TextBad, TextNull, TextObj(dataAna), TextObj(dataTags)}

InitWatch ==
    \E data \in {dataAna, dataDup} :
        LET r == normalizeData(data, EmptyStore, 0) IN
        /\ store = r.store
        /\ nextUuid = r.n
        /\ routes = DOMAIN r.store
        /\ crashed = FALSE
        /\ last = [req |-> Req("NEW", "", <<>>, TextObj(data)), event |-> NoEvent,
                   pre |-> EmptyStore, msgs |-> <<>>, err |-> FALSE]
        /\ nops = 0
        /\ deleted = {}
        /\ loaded = DOMAIN r.store
        /\ heap = <<>> /\ refs = <<>> /\ mu = <<>> /\ pc = <<>> /\ loc = <<>>
        /\ lin = <<>> /\ hist = <<>>
        /\ raced = [read |-> FALSE, torn |-> FALSE]
        /\ config = DefaultConfig
        /\ w = [filePath |-> filePath, onChange |-> "nil", state |-> "new"]
        /\ msgs = <<>>
        /\ FsAtRest
        /\ UnitsAtRest

\* w.SetOnChange(fn), before Start: the field is written without
\* synchronization, the go statement of Start orders it before watch
SetOnChange ==
    \E fn \in Observers :
        /\ ~crashed /\ w.state = "new"
        /\ w' = [w EXCEPT !.onChange = fn]
        /\ UNCHANGED <<store, routes, nextUuid, crashed, last, nops, deleted, loaded, conc,
                       config, units, msgs, fsys>>

\* w.Start(): w.watcher.Add(dir); go w.watch()
WatcherStart ==
    /\ ~crashed /\ w.state = "new"
    /\ w' = [w EXCEPT !.state = "watching"]
    /\ UNCHANGED <<store, routes, nextUuid, crashed, last, nops, deleted, loaded, conc,
                   config, units, msgs, fsys>>

\* case event, ok := <-w.watcher.Events
Event ==
    \E name \in EventNames : \E op \in EventOps : \E f \in WatchFiles :
        LET event == [name |-> name, op |-> op]
            r     == watch(w, store, nextUuid, msgs, event, f)
        IN  /\ ~crashed /\ w.state = "watching"
            /\ nops < MaxOps
            /\ r.n <= MaxUuid
            /\ store' = r.store
            /\ nextUuid' = r.n
            /\ msgs' = r.msgs
            /\ last' = [req |-> Req("EVENT", "", <<>>, f), event |-> event,
                        pre |-> store, msgs |-> msgs, err |-> r.err]
            /\ nops' = nops + 1
            /\ UNCHANGED <<routes, crashed, deleted, loaded, conc, config, units, w, fsys>>

\* case err, ok := <-w.watcher.Errors
WatcherError ==
    /\ ~crashed /\ w.state = "watching"
    /\ nops < MaxOps
    /\ msgs' = notify(w, msgs, MsgError)
    /\ last' = [req |-> reqError, event |-> NoEvent,
                pre |-> store, msgs |-> msgs, err |-> FALSE]
    /\ nops' = nops + 1
    /\ UNCHANGED <<store, routes, nextUuid, crashed, deleted, loaded, conc, config, units, w, fsys>>

\* w.Stop(): close(w.stop), watch returns
Stop ==
    /\ ~crashed /\ w.state = "watching"
    /\ w' = [w EXCEPT !.state = "stopped"]
    /\ UNCHANGED <<store, routes, nextUuid, crashed, last, nops, deleted, loaded, conc,
                   config, units, msgs, fsys>>

NextWatch == SetOnChange \/ WatcherStart \/ Event \/ WatcherError \/ Stop

SpecWatch == InitWatch /\ [][NextWatch]_vars

\* the most recent step was an event
OnEvent == last.req.op = "EVENT"

\* the event names the tracked file, by base name
NamesTracked == last.event.name[Len(last.event.name)] = "db.json"

\* the event is one that watch answers with a reload attempt
IsAttempt == OnEvent /\ NamesTracked /\ ({"Write", "Create"} \cap last.event.op # {})

\* C28: a notification whose path has a base name other than the tracked
\* file's triggers no reload: the store stays as it was and no status message
\* is emitted; only notifications with the tracked base name lead to a reload
\* attempt.
C28_IdentityFiltering ==
    OnEvent =>
        /\ ~NamesTracked => (store = last.pre /\ msgs = last.msgs /\ ~last.err)
        /\ (store # last.pre \/ msgs # last.msgs \/ last.err) => NamesTracked

\* a write to another file of the directory while the tracked file holds a
\* dataset that differs from the store, an observer being registered
C28_Witness ==
    /\ OnEvent /\ ~NamesTracked
    /\ last.event.op = {"Write"}
    /\ last.req.raw = TextObj(dataTags)
    /\ "tags" \notin DOMAIN store
    /\ w.onChange # "nil"

\* C29: every reload attempt gives the registered observer exactly one status
\* message, the success message exactly when the store was replaced and the
\* failure message exactly when it was left as it was; with no observer the
\* attempt goes the same way and nothing is emitted.
C29_NotificationProtocol ==
    IsAttempt =>
        /\ ~last.err => Ingested(DatasetOf(last.req.raw), store)
        /\ last.err => store = last.pre
        /\ last.err <=> last.req.raw.k \in {"unreadable", "malformed", "array", "scalar"}
        /\ ~crashed
        /\ IF w.onChange = "nil" THEN msgs = last.msgs
           ELSE /\ Len(msgs) = Len(last.msgs) + 1
                /\ SubSeq(msgs, 1, Len(last.msgs)) = last.msgs
                /\ msgs[Len(msgs)].to = w.onChange
                /\ msgs[Len(msgs)].m = MsgReloaded <=> ~last.err
                /\ msgs[Len(msgs)].m = MsgFailed <=> last.err

\* a failed attempt after a successful one, both reported to the observer
C29_Witness ==
    /\ IsAttempt /\ last.err /\ w.onChange = "f"
    /\ Len(msgs) >= 2
    /\ msgs[Len(msgs) - 1].m = MsgReloaded
    /\ store # <<>>

\* an attempt with no observer registered that replaced the store
C29_WitnessNoObserver ==
    /\ IsAttempt /\ ~last.err /\ w.onChange = "nil"
    /\ store # last.pre /\ msgs = <<>>

(***************************************************************************)
(* SpecList: the list handler on its own.  The engine starts with one      *)
(* collection users out of Collections; every request is a GET /users with *)
(* query parameters out of ListQueries.                                    *)
(***************************************************************************)
recAna == [id |-> JStr(uuidString(1)), name |-> JStr(sAna)]
recBob == [id |-> JStr(uuidString(2)), name |-> JStr(sBob)]

cScenario == <<recAna, recBob>>
cMixed    == << [id |-> JStr(s2), name |-> JStr(sBob)],
                [id |-> JStr(s1), name |-> JStr(<<"a", "n", "a">>), age |-> JNum(s30)],
                [id |-> JStr(s3), name |-> JStr(sAna), role |-> JStr(sAdm)],
                [id |-> JNum(s1), name |-> JStr(sBob)] >>
cNil      == << [id |-> JStr(s2), name |-> JStr(sAna), role |-> JStr(sAdm)],
                [id |-> JNull] >>
Collections == {<<>>, cScenario, cMixed, cNil}

SearchQueries ==
    {("q" :> v) : v \in {<<"a", "n">>, <<"A", "N">>, <<"b">>, s1, <<"n", "i", "l">>, sX, <<>>}}

FilterQueries ==
    {("name" :> sAna), ("name" :> sBob), ("name" :> <<>>), ("id" :> s1), ("role" :> sAdm),
     ("age" :> s30), ("_x" :> sAna),
     ("name" :> sBob) @@ ("id" :> s1),
     ("name" :> sAna) @@ ("role" :> <<>>),
     ("q" :> <<"a", "n">>) @@ ("name" :> sAna)}

SortQueries ==
    {("_sort" :> f) : f \in {sName, <<"i", "d">>, <<"a", "g", "e">>, sX}}
    \cup {("_sort" :> f) @@ ("_order" :> o) :
            f \in {sName, <<"i", "d">>, <<"a", "g", "e">>}, o \in {sDesc, sAsc, sX}}
    \cup {("_order" :> sDesc), ("name" :> sBob) @@ ("_sort" :> <<"i", "d">>)}

PageQueries ==
    {("_limit" :> l) : l \in {s1, s2, s4, s99, s0, sNeg, sX}}
    \cup {("_limit" :> l) @@ ("_page" :> pg) :
            l \in {s1, s2, s4, s99, s0}, pg \in {s0, s1, s2, s3, s9, s99, sNeg}}
    \cup {qSortDesc @@ qPageOne}

ListQueries == {NoParams} \cup SearchQueries \cup FilterQueries \cup SortQueries
               \cup PageQueries

InitList ==
    \E c \in Collections :
        /\ store = [users |-> c]
        /\ nextUuid = 0
        /\ routes = {"users"}
        /\ crashed = FALSE
        /\ last = [req |-> Req("NEW", "", <<>>, NoText), status |-> 0,
                   resp |-> RespEmpty, pre |-> EmptyStore, del |-> {}, prev |-> NoPrev]
        /\ nops = 0
        /\ deleted = {}
        /\ loaded = {"users"}
        /\ heap = <<>> /\ refs = <<>> /\ mu = <<>> /\ pc = <<>> /\ loc = <<>>
        /\ lin = <<>> /\ hist = <<>>
        /\ raced = [read |-> FALSE, torn |-> FALSE]
        /\ EnvAtRest

\* the router serves one list request (the history keeps this request only)
List ==
    \E params \in ListQueries : \E ord \in Orders(params) :
        LET req == ReqList("users", params, ord)
            o   == Dispatch(store, nextUuid, routes, req)
        IN  /\ ~crashed
            /\ store' = o.store
            /\ nextUuid' = o.n
            /\ crashed' = o.panic
            /\ last' = [req |-> req, status |-> o.status, resp |-> o.resp, pre |-> store,
                        del |-> {}, prev |-> NoPrev]
            /\ UNCHANGED <<routes, nops, deleted, loaded, conc, env>>

NextList == List

SpecList == InitList /\ [][NextList]_vars

\* C11: in every reachable state every record of every collection has a field
\* id, and its value is a string.
C11_RecordHasStringID ==
    \A r \in DOMAIN store : \A i \in 1..Len(store[r]) :
        "id" \in DOMAIN store[r][i] /\ store[r][i]["id"].t = "string"

\* C12: a POST whose body has an id is answered 201 and appended, whether or
\* not a record of the collection has that id; GET, PUT, PATCH and DELETE by an
\* id act on the first record of the collection with that id and leave every
\* other record, the later ones with the same id included, as it was.
C12_DuplicateIDFirstMatch ==
    LET r   == last.req.res
        pre == Coll(last.pre, r)
        i   == Addressed(pre, last.req.id)
    IN  /\ (Served("POST") /\ last.req.raw.k = "object" /\ "id" \in DOMAIN last.req.raw.m)
              => /\ last.status = 201
                 /\ store[r] = Append(pre, last.req.raw.m)
                 /\ \A x \in DOMAIN last.pre : x # r => store[x] = last.pre[x]
        /\ (Served("GET") /\ i > 0)
              => /\ last.status = 200 /\ last.resp.k = "record" /\ last.resp.m = pre[i]
                 /\ store = last.pre
        /\ (last.req.op \in {"PUT", "PATCH"} /\ r \in routes /\ last.req.raw.k = "object"
             /\ i > 0)
              => /\ last.status = 200
                 /\ SameExceptAt(store, last.pre, r, i)
                 /\ last.resp.k = "record" /\ last.resp.m = store[r][i]
        /\ (Served("DELETE") /\ i > 0)
              => /\ last.status = 204
                 /\ store[r] = SubSeq(pre, 1, i - 1) \o SubSeq(pre, i + 1, Len(pre))
                 /\ \A x \in DOMAIN last.pre : x # r => store[x] = last.pre[x]

\* a POST has added a third record with id 1, and a PATCH of id 1 then changed
\* the first of the three and left the posted one as it was
C12_Witness ==
    /\ Served("PATCH") /\ last.status = 200
    /\ LET pre == last.pre[last.req.res] IN
        /\ Hits(pre, last.req.id) = {1, 2, 3}
        /\ pre[3] = bodyDup
        /\ store[last.req.res][1] # pre[1]
        /\ store[last.req.res][3] = bodyDup

(***************************************************************************)
(* Claims on list requests.  For the most recent request, a GET /R:        *)
(* Listed is the collection of R, Params the query parameters.             *)
(***************************************************************************)
Listed == Coll(last.pre, last.req.res)
Params == last.req.query
Has(key) == key \in DOMAIN Params /\ Params[key] # <<>>

\* the records before pagination, as the handler computes them
Unpaged == Sort(Filters(Search(Listed, Params), Params, last.req.ord), Params)

\* the numbers the handler reads from _page and _limit
PageNo  == IF Has("_page") THEN Atoi(Params["_page"]) ELSE 0
LimitNo == IF Has("_limit") THEN Atoi(Params["_limit"]) ELSE 0

\* seq sliced at [start, min(start + L, total)), in unbounded arithmetic
SliceOf(seq, P, L) ==
    LET start == IF P > 0 THEN (P - 1) * L ELSE 0
        upto  == IF start + L < Len(seq) THEN start + L ELSE Len(seq)
    IN  IF start >= Len(seq) THEN <<>> ELSE SubSeq(seq, start + 1, upto)

\* C13: a GET /R with _limit = L > 0 returns the searched, filtered and sorted
\* sequence sliced at [(P-1)*L, min(P*L, total)) for _page = P > 0 and at
\* [0, min(L, total)) for P <= 0 or absent, empty when the start is not below
\* total; it reports total, P and L alongside.
C13_PaginationBound ==
    (Served("LIST") /\ LimitNo > 0)
        => /\ last.status = 200 /\ last.resp.k = "paged"
           /\ last.resp.items = SliceOf(Unpaged, PageNo, LimitNo)
           /\ last.resp.total = Itoa(Len(Unpaged))
           /\ last.resp.page = Itoa(PageNo)
           /\ last.resp.limit = Itoa(LimitNo)

\* C13 where start and start + L stay in the range of int
C13_PaginationInRange ==
    (Served("LIST") /\ LimitNo > 0
     /\ (IF PageNo > 0 THEN (PageNo - 1) * LimitNo ELSE 0) + LimitNo <= MaxInt)
        => /\ last.status = 200 /\ last.resp.k = "paged"
           /\ last.resp.items = SliceOf(Unpaged, PageNo, LimitNo)
           /\ last.resp.total = Itoa(Len(Unpaged))
           /\ last.resp.page = Itoa(PageNo)
           /\ last.resp.limit = Itoa(LimitNo)

\* the names in order
NamesOf(items) == [i \in 1..Len(items) |-> items[i]["name"].v]

\* the state of the scenario: users holds Ana and Bob, GET
\* /users?_sort=name&_order=desc has just returned [Bob, Ana], and the request
\* is GET /users?_page=1&_limit=1
C14_Scenario ==
    /\ last.req = ReqList("users", qPageOne, last.req.ord)
    /\ last.prev.k = "sorted" /\ last.prev.res = "users" /\ last.prev.query = qSortDesc
    /\ NamesOf(last.prev.items) = <<sBob, sAna>>
    /\ Len(last.pre["users"]) = 2
    /\ \E i, j \in 1..2 :
            /\ DOMAIN last.pre["users"][i] = {"id", "name"}
            /\ DOMAIN last.pre["users"][j] = {"id", "name"}
            /\ last.pre["users"][i]["name"] = JStr(sAna)
            /\ last.pre["users"][j]["name"] = JStr(sBob)
            /\ Head(last.pre["users"][i]["id"].v) = "u"
            /\ Head(last.pre["users"][j]["id"].v) = "u"

\* C14 as claimed: in the scenario GET /users?_page=1&_limit=1 returns [Bob]
\* with total-count 2.
C14_PageAfterSort ==
    C14_Scenario
        => /\ last.status = 200 /\ last.resp.k = "paged"
           /\ NamesOf(last.resp.items) = <<sBob>>
           /\ last.resp.total = s2

\* C14 amended: in the scenario GET /users?_page=1&_limit=1 returns [Ana], the
\* first record in insertion order, with total-count 2.
C14_PageInInsertionOrder ==
    C14_Scenario
        => /\ last.status = 200 /\ last.resp.k = "paged"
           /\ NamesOf(last.resp.items) = <<sAna>>
           /\ last.resp.total = s2
           /\ last.resp.page = s1 /\ last.resp.limit = s1

C14_Witness == C14_Scenario /\ last.status = 200

\* two characters equal up to the case of a letter
FoldEq(c, d) ==
    \/ c = d
    \/ /\ Code[c] - Code[d] \in {32, 0 - 32}
       /\ \A x \in {c, d} : (Code[x] >= 65 /\ Code[x] <= 90) \/ (Code[x] >= 97 /\ Code[x] <= 122)

\* term occurs in text, letters compared without case
ContainsFold(text, term) ==
    \E i \in 0..(Len(text) - Len(term)) :
        \A j \in 1..Len(term) : FoldEq(text[i + j], term[j])

\* C15: with q = term non-empty (and no other parameter), the result holds
\* exactly the records of R of which some field's stringified value contains
\* term, letters compared without case; with q absent or empty it holds every
\* record.
C15_SearchTotality ==
    (Served("LIST") /\ DOMAIN Params \subseteq {"q"})
        => /\ last.status = 200 /\ last.resp.k = "list"
           /\ last.resp.items =
                IF Has("q")
                THEN SelectSeq(Listed, LAMBDA item :
                         \E k \in DOMAIN item : ContainsFold(Sprintf(item[k]), Params["q"]))
                ELSE Listed

\* a search whose term is in upper case kept some records and dropped others
C15_Witness ==
    /\ Served("LIST") /\ DOMAIN Params = {"q"} /\ Params["q"] = <<"A", "N">>
    /\ last.resp.items # <<>>
    /\ Len(last.resp.items) < Len(Listed)

\* the parameters that are field filters
FilterNames == {k \in DOMAIN Params : k \notin {"q", "_sort", "_order", "_page", "_limit", "_x"}}

\* C16: the result (no sort, no pagination) holds exactly the records that
\* survive the search and, for every parameter k = v that is not q and does not
\* start with _, whatever v is, have a field k whose stringified value is v.
C16_FiltersExactConjunctive ==
    (Served("LIST") /\ ~Has("_sort") /\ ~Has("_limit"))
        => /\ last.status = 200 /\ last.resp.k = "list"
           /\ last.resp.items =
                SelectSeq(Search(Listed, Params), LAMBDA item :
                    \A k \in FilterNames : k \in DOMAIN item /\ Sprintf(item[k]) = Params[k])

\* C16 for the filters with a non-empty value
C16_NonEmptyFilters ==
    (Served("LIST") /\ ~Has("_sort") /\ ~Has("_limit")
     /\ \A k \in FilterNames : Params[k] # <<>>)
        => /\ last.status = 200 /\ last.resp.k = "list"
           /\ last.resp.items =
                SelectSeq(Search(Listed, Params), LAMBDA item :
                    \A k \in FilterNames : k \in DOMAIN item /\ Sprintf(item[k]) = Params[k])

\* a <= b in lexicographic order of the bytes
LexLeq(a, b) ==
    \E n \in 0..Len(a) :
        /\ n <= Len(b)
        /\ \A i \in 1..n : a[i] = b[i]
        /\ \/ n = Len(a)
           \/ n < Len(b) /\ Code[a[n + 1]] < Code[b[n + 1]]

\* how often x occurs in seq
Count(seq, x) == Cardinality({i \in 1..Len(seq) : seq[i] = x})

\* C17: with _sort = f (no pagination) the result is a permutation of the
\* searched and filtered records in which the stringified values of f do not
\* decrease, or do not increase when _order is desc; without _sort the records
\* stay in insertion order.
C17_Sorted ==
    (Served("LIST") /\ ~Has("_limit"))
        => LET before == Filters(Search(Listed, Params), Params, last.req.ord)
               after  == last.resp.items
               f      == FieldOf(Params["_sort"])
               desc   == Has("_order") /\ Params["_order"] = sDesc
           IN  /\ last.status = 200 /\ last.resp.k = "list"
               /\ ~Has("_sort") => after = before
               /\ Has("_sort") =>
                    /\ Len(after) = Len(before)
                    /\ \A i \in 1..Len(before) : Count(after, before[i]) = Count(before, before[i])
                    /\ \A i \in 1..(Len(after) - 1) :
                            IF desc
                            THEN LexLeq(FieldText(after[i + 1], f), FieldText(after[i], f))
                            ELSE LexLeq(FieldText(after[i], f), FieldText(after[i + 1], f))

\* a descending sort by name that moved records
C17_Witness ==
    /\ Served("LIST") /\ DOMAIN Params = {"_sort", "_order"}
    /\ Params["_sort"] = sName /\ Params["_order"] = sDesc
    /\ Len(last.resp.items) = 4
    /\ last.resp.items # Listed
    /\ NamesOf(last.resp.items) = << <<"a", "n", "a">>, sBob, sBob, sAna >>

\* C18: GET /R is answered 200 with a JSON array for every combination of
\* query parameters, every _page and _limit included; the process goes on.
C18_ListNeverFails ==
    Served("LIST") => (last.status = 200 /\ last.resp.k \in {"list", "paged"} /\ ~crashed)

(***************************************************************************)
(* Claims on request bodies and on the lookup by id, under Spec.           *)
(***************************************************************************)
\* C19: POST /R, PUT /R/:id and PATCH /R/:id with a body that is not a JSON
\* object (malformed text, array, scalar or null) answer 400 with error
\* invalid_body, leave the store as it was, and the process goes on.
C19_InvalidBodyRejected ==
    (last.req.op \in {"POST", "PUT", "PATCH"} /\ last.req.res \in routes
     /\ last.req.raw.k # "object")
        => /\ last.status = 400
           /\ last.resp.k = "error" /\ last.resp.error = "invalid_body"
           /\ store = last.pre
           /\ ~crashed

\* C19 for the bodies that json.Unmarshal refuses: malformed, array, scalar
C19_RefusedBodyRejected ==
    (last.req.op \in {"POST", "PUT", "PATCH"} /\ last.req.res \in routes
     /\ last.req.raw.k \in {"malformed", "array", "scalar"})
        => /\ last.status = 400
           /\ last.resp.k = "error" /\ last.resp.error = "invalid_body"
           /\ store = last.pre
           /\ ~crashed

\* C20: GET /R/:id answers 200 with a record iff some record of R has an id
\* that stringifies to the path parameter, and then with the first such record
\* in insertion order; otherwise 404 with error not_found and a message that
\* names the resource and the id.  The store stays as it was.
C20_GetByID ==
    Served("GET")
        => LET hits == Hits(Listed, last.req.id) IN
           /\ (last.status = 200 /\ last.resp.k = "record") <=> hits # {}
           /\ hits # {} =>
                /\ \E i \in hits : (\A j \in hits : i <= j) /\ last.resp.m = Listed[i]
           /\ hits = {} =>
                /\ last.status = 404
                /\ last.resp.k = "error" /\ last.resp.error = "not_found"
                /\ Len(last.resp.message) = 4
                /\ last.resp.message[1] = last.req.res
                /\ last.resp.message[3] = last.req.id
           /\ store = last.pre
           /\ ~crashed

\* a GET answered with a record whose id is a number, and one answered 404
C20_Witness ==
    /\ Served("GET") /\ last.status = 200
    /\ last.resp.m["id"].t = "float64"
    /\ Sprintf(last.resp.m["id"]) = last.req.id

C20_WitnessNotFound ==
    /\ Served("GET") /\ last.status = 404
    /\ Listed # <<>>

(***************************************************************************)
(* SpecConc: MaxProcs request goroutines, one request each, and the        *)
(* watcher goroutine with one reload, interleaved.  Records are Go maps:   *)
(* the store and every slice copied from it hold references to them.       *)
(***************************************************************************)
Procs    == 1..MaxProcs
Watcher  == 0
NoHolder == -1

\* sync.RWMutex: Lock waits for the writer and the readers to leave, RLock for
\* the writer
MayLockIgnoringReaders == mu.writer = NoHolder
MayLockIgnoringWriters == mu.readers = {}
MayLock  == mu.writer = NoHolder /\ mu.readers = {}
MayRLock == mu.writer = NoHolder

\* the store that the memory holds
View(rf, h) == [r \in DOMAIN rf |-> [i \in 1..Len(rf[r]) |-> h[rf[r][i]]]]

\* the values of a slice of references
Deref(items, h) == [i \in 1..Len(items) |-> h[items[i]]]

\* the addresses of n new map objects
NewAddrs(h, n) ==
    LET top == Cardinality({a \in DOMAIN h : a > 0}) IN [i \in 1..n |-> top + i]

\* the address of the map that c.BodyParser makes for the request of p: the
\* addresses are names, distinct from those of the maps of the files
BodyAddr(p) == 0 - p

concAna    == [id |-> JStr(s1), name |-> JStr(sAna)]
concData   == [users |-> TArr(<<TObj(concAna)>>), posts |-> TObj([id |-> JStr(s2)])]
concReload == [users |-> TArr(<<TObj([id |-> JStr(s1), name |-> JStr(sBob)])>>),
               tags  |-> TArr(<<TObj([id |-> JStr(s2)])>>)]
concPost   == [id |-> JStr(s2), name |-> JStr(sBob)]
concPatch  == [name |-> JStr(sBob), age |-> JNum(s30)]
concPut    == [id |-> JStr(s2), name |-> JStr(sBob)]

ConcRequests ==
    { Req("LIST", "users", <<>>, NoText),
      Req("LIST", "tags", <<>>, NoText),
      Req("GET", "users", s1, NoText),
      Req("DB", "", <<>>, NoText),
      Req("HEALTH", "", <<>>, NoText),
      Req("POST", "users", <<>>, TextObj(concPost)),
      Req("PUT", "users", s1, TextObj(concPut)),
      Req("PATCH", "users", s1, TextObj(concPatch)),
      Req("PATCH", "users", s2, TextObj(concPatch)),
      Req("DELETE", "users", s1, NoText) }

ConcFiles == {TextObj(concReload)}

IsWrite(op) == op \in {"POST", "PUT", "PATCH", "DELETE", "RELOAD"}
InFlight(q) == pc[q] \notin {"idle", "done"}
WriterInFlight == \E q \in Procs \cup {Watcher} : InFlight(q) /\ IsWrite(loc[q].req.op)

NoOutcome == [status |-> 0, resp |-> RespEmpty]
Outcome(status, resp) == [status |-> status, resp |-> resp]

IdleLoc ==
    [req |-> Req("NONE", "", <<>>, NoText),
     items |-> <<>>, i |-> 0, addr |-> 0, todo |-> {}, pos |-> 0, acc |-> EmptyObj,
     done |-> <<>>,
     out |-> NoOutcome,        \* the response
     obs |-> NoOutcome,        \* history: what the handler has just seen of the store
     expect |-> NoOutcome,     \* history: what lin gives for the request
     quiet |-> FALSE,          \* history: no other write in flight since the request began
     want |-> NoOutcome]       \* history: what lin gave when a quiet request began

ConcAtRest ==
    LET r == normalizeData(concData, EmptyStore, 0) IN
    /\ nextUuid = r.n
    /\ routes = DOMAIN r.store
    /\ crashed = FALSE
    \* the store is heap and refs here; the variables of Spec stay at rest
    /\ store = <<>> /\ last = <<>> /\ nops = 0 /\ deleted = {} /\ loaded = {}
    /\ heap = <<r.store["users"][1], r.store["posts"][1]>>
    /\ refs = [users |-> <<1>>, posts |-> <<2>>]
    /\ mu = [writer |-> NoHolder, readers |-> {}]
    /\ pc = [p \in Procs \cup {Watcher} |-> "idle"]
    /\ loc = [p \in Procs \cup {Watcher} |-> IdleLoc]
    /\ lin = r.store
    /\ hist = <<{r.store["users"][1]}, {r.store["posts"][1]}>>
    /\ raced = [read |-> FALSE, torn |-> FALSE]

InitConc == ConcAtRest /\ EnvAtRest

\* the store that ConcAtRest builds
ConcStart == normalizeData(concData, EmptyStore, 0).store

Seq0 == <<store, last, nops, deleted, loaded>>

\* the history of request q when a write or a reload begins
Disturb(l, q) ==
    IF InFlight(q) THEN [l EXCEPT !.quiet = FALSE, !.want = NoOutcome] ELSE l

\* the request is over: its locals go, its response and history stay
Finish(l) ==
    [IdleLoc EXCEPT !.req = l.req, !.out = l.out, !.quiet = l.quiet, !.want = l.want]

\* a request arrives: the router picks the handler (or answers 404 where
\* registerRoutes registered none), which decodes the body (c.BodyParser) and,
\* in handleCreate, gives it an id: all before any lock.
\* The goroutines are alike; they are numbered in their order of arrival.
Start(p) ==
    /\ ~crashed /\ pc[p] = (IF config.ChaosMode THEN "next" ELSE "idle")
    /\ p = 1 \/ pc[p - 1] # "idle"
    /\ \E req \in ConcRequests :
        LET parsed == Unmarshal(req.raw)
            routed == req.op \in {"DB", "HEALTH"} \/ req.res \in routes
            bad    == req.op \in {"POST", "PUT", "PATCH"} /\ parsed.err
            alloc  == req.op \in {"POST", "PUT"} /\ ~parsed.err /\ routed
            writes == IsWrite(req.op) /\ routed /\ ~bad
            body   == IF req.op = "POST" THEN ensureID(parsed.m, nextUuid + 1) ELSE parsed.m
            calm   == ~WriterInFlight
            now    == Dispatch(lin, nextUuid, routes \cup DOMAIN lin, req)
            mine   == [IdleLoc EXCEPT
                         !.req = IF req.op = "POST" /\ ~parsed.err
                                 THEN [req EXCEPT !.raw = TextObj(body)] ELSE req,
                         !.addr = IF alloc THEN BodyAddr(p) ELSE 0,
                         !.quiet = calm,
                         !.want = IF calm /\ ~IsWrite(req.op)
                                  THEN Outcome(now.status, now.resp) ELSE NoOutcome]
        IN  /\ nextUuid' = IF req.op = "POST" /\ ~parsed.err /\ routed
                           THEN nextUuid + uuidCalls(parsed.m) ELSE nextUuid
            /\ nextUuid' <= MaxUuid
            /\ heap' = IF alloc THEN (BodyAddr(p) :> body) @@ heap ELSE heap
            /\ hist' = IF alloc THEN (BodyAddr(p) :> {body}) @@ hist ELSE hist
            /\ IF ~routed \/ bad
               THEN /\ pc' = [pc EXCEPT ![p] = "done"]
                    /\ loc' = [loc EXCEPT ![p] = [mine EXCEPT
                                 !.out = IF routed
                                         THEN Outcome(400, RespError("invalid_body"))
                                         ELSE Outcome(404, RespError("no_route"))]]
               ELSE /\ pc' = [pc EXCEPT ![p] = IF IsWrite(req.op) THEN "lock" ELSE "rlock"]
                    /\ loc' = [q \in DOMAIN loc |->
                                 IF q = p THEN mine
                                 ELSE IF writes THEN Disturb(loc[q], q)
                                 ELSE loc[q]]
    /\ UNCHANGED <<refs, mu, lin, raced, routes, crashed, Seq0, env>>

\* the middleware sleeping with the read lock taken
ChaosSleepLocked(p) ==
    /\ ~crashed /\ config.ChaosMode /\ pc[p] = "idle"
    /\ p = 1 \/ pc[p - 1] # "idle"
    /\ MayRLock
    /\ mu' = [mu EXCEPT !.readers = @ \cup {p}]
    /\ pc' = [pc EXCEPT ![p] = "decide"]
    /\ UNCHANGED <<heap, refs, loc, lin, hist, raced, routes, nextUuid, crashed, Seq0, env>>

\* chaosMiddleware: a request arrives and the middleware sleeps,
\* time.Sleep(delay); the other goroutines run meanwhile.
\* The goroutines are alike; they are numbered in their order of arrival.
ChaosSleep(p) ==
    /\ ~crashed /\ config.ChaosMode /\ pc[p] = "idle"
    /\ p = 1 \/ pc[p - 1] # "idle"
    /\ pc' = [pc EXCEPT ![p] = "decide"]
    /\ UNCHANGED <<heap, refs, mu, loc, lin, hist, raced, routes, nextUuid, crashed, Seq0, env>>

\* c.Next(), as chaosMiddleware sees it before the router has run
PassedOn == [status |-> 0, resp |-> RespEmpty, store |-> <<>>, n |-> 0, panic |-> FALSE]

\* chaosMiddleware after the sleep: the draw, then the 5xx response or c.Next()
ChaosDecide(p) ==
    /\ ~crashed /\ config.ChaosMode /\ pc[p] = "decide"
    /\ \E r \in Draws : \E k \in Intn(Len(ChaosErrors)) :
        LET o == chaosMiddleware(config.ChaosPercent, r, k, <<>>, 0, PassedOn) IN
        IF o = PassedOn
        THEN /\ pc' = [pc EXCEPT ![p] = "next"]
             /\ loc' = loc
        ELSE /\ pc' = [pc EXCEPT ![p] = "done"]
             /\ loc' = [loc EXCEPT ![p].out = Outcome(o.status, o.resp)]
    /\ UNCHANGED <<heap, refs, mu, lin, hist, raced, routes, nextUuid, crashed, Seq0, env>>

\* what lin gives for the request of p
Expected(p) ==
    LET o == Dispatch(lin, nextUuid, routes, loc[p].req) IN Outcome(o.status, o.resp)

\* e.mu.RLock()
RLock(p) ==
    /\ ~crashed /\ pc[p] = "rlock"
    /\ MayRLock
    /\ mu' = [mu EXCEPT !.readers = @ \cup {p}]
    /\ pc' = [pc EXCEPT ![p] = "read"]
    /\ loc' = [loc EXCEPT ![p].expect = Expected(p)]
    /\ UNCHANGED <<heap, refs, lin, hist, raced, routes, nextUuid, crashed, Seq0, env>>

\* the reads under RLock: handleGetAll copies the slice; handleGetByID scans and
\* encodes the match or the 404 (c.JSON before the deferred RUnlock); /db
\* encodes the store; listResources, for /health, copies the keys and
\* returns, the keys are encoded after it
Read(p) ==
    /\ ~crashed /\ pc[p] = "read"
    /\ LET req   == loc[p].req
           items == Coll(refs, req.res)
           i     == FindByID(Deref(items, heap), req.id)
           got   == CASE req.op = "LIST"   -> Outcome(200, RespList(Deref(items, heap)))
                      [] req.op = "GET"    -> IF i > 0
                                              THEN Outcome(200, RespRecord(heap[items[i]]))
                                              ELSE Outcome(404, RespNotFound(req.res, req.id))
                      [] req.op = "DB"     -> Outcome(200, RespStore(View(refs, heap)))
                      [] req.op = "HEALTH" -> Outcome(200, RespHealth(DOMAIN refs))
       IN  loc' = [loc EXCEPT ![p].items = IF req.op = "LIST" THEN items ELSE <<>>,
                              ![p].obs = got,
                              ![p].out = IF req.op \in {"LIST", "HEALTH"}
                                         THEN NoOutcome ELSE got]
    /\ pc' = [pc EXCEPT ![p] = "runlock"]
    /\ UNCHANGED <<heap, refs, mu, lin, hist, raced, routes, nextUuid, crashed, Seq0, env>>

\* the locals of p set up to encode the maps at items
BeginEncode(l, items) ==
    [l EXCEPT !.items = items, !.pos = 1, !.done = <<>>, !.acc = EmptyObj,
              !.i = 0, !.addr = 0, !.obs = NoOutcome, !.expect = NoOutcome]

\* e.mu.RUnlock(); handleGetAll goes on to c.JSON(items) without the lock
RUnlock(p) ==
    /\ ~crashed /\ pc[p] = "runlock"
    /\ mu' = [mu EXCEPT !.readers = @ \ {p}]
    /\ IF loc[p].req.op = "LIST" /\ loc[p].items # <<>>
       THEN /\ pc' = [pc EXCEPT ![p] = "encode"]
            /\ loc' = [loc EXCEPT ![p] = BeginEncode(@, loc[p].items)]
       ELSE /\ pc' = [pc EXCEPT ![p] = "done"]
            /\ loc' = [loc EXCEPT ![p] = Finish([@ EXCEPT !.out =
                                              CASE loc[p].req.op = "LIST"
                                                     -> Outcome(200, RespList(<<>>))
                                                [] loc[p].req.op = "HEALTH" -> loc[p].obs
                                                [] OTHER -> @])]
    /\ UNCHANGED <<heap, refs, lin, hist, raced, routes, nextUuid, crashed, Seq0, env>>

\* a writer is inside its merge loop on the map at address a
Modifying(a) == \E q \in Procs : pc[q] = "merge" /\ loc[q].addr = a

\* c.JSON(items) in handleGetAll and c.JSON(body) in handleCreate, after the
\* lock is released: the map at items[pos] is iterated, one key a step, until
\* it holds no key that was not read.  A read that
\* meets a writer inside its merge loop on the same map is a data race: it
\* yields what the map holds, or the run-time ends the process ("concurrent
\* map read and map write").
Encode(p) ==
    /\ ~crashed /\ pc[p] = "encode"
    /\ LET l == loc[p]
           a == l.items[l.pos]
       IN  \E k \in (DOMAIN heap[a]) \ (DOMAIN l.acc) :
            LET acc  == SetKey(l.acc, k, heap[a][k])
                rest == (DOMAIN heap[a]) \ (DOMAIN acc)
                recs == Append(l.done, acc)
                more == l.pos < Len(l.items)
            IN  /\ raced' = [raced EXCEPT
                               !.read = @ \/ Modifying(a),
                               !.torn = @ \/ (rest = {} /\ acc \notin hist[a])]
                /\ \/ crashed' = FALSE
                   \/ Modifying(a) /\ crashed' = TRUE
                /\ IF rest # {}
                   THEN /\ loc' = [loc EXCEPT ![p].acc = acc]
                        /\ pc' = pc
                   ELSE IF more
                   THEN /\ loc' = [loc EXCEPT ![p].acc = EmptyObj, ![p].done = recs,
                                              ![p].pos = l.pos + 1]
                        /\ pc' = pc
                   ELSE /\ loc' = [loc EXCEPT ![p] = Finish([@ EXCEPT !.out =
                                                 IF l.req.op = "POST"
                                                 THEN Outcome(201, RespRecord(acc))
                                                 ELSE Outcome(200, RespList(recs))])]
                        /\ pc' = [pc EXCEPT ![p] = "done"]
    /\ UNCHANGED <<heap, refs, mu, lin, hist, routes, nextUuid, Seq0, env>>

\* e.mu.Lock() of handleCreate, handleUpdate, handlePatch, handleDelete
Lock(p) ==
    /\ ~crashed /\ pc[p] = "lock"
    /\ MayLock
    /\ mu' = [mu EXCEPT !.writer = p]
    /\ lin' = Dispatch(lin, nextUuid, routes, loc[p].req).store
    /\ loc' = [loc EXCEPT ![p].expect = Expected(p)]
    /\ pc' = [pc EXCEPT ![p] = IF loc[p].req.op = "POST" THEN "load" ELSE "find"]
    /\ UNCHANGED <<heap, refs, hist, raced, routes, nextUuid, crashed, Seq0, env>>

\* handleCreate: the read of e.store[resource] in append(e.store[resource], body)
Load(p) ==
    /\ ~crashed /\ pc[p] = "load"
    /\ loc' = [loc EXCEPT ![p].items = Coll(refs, loc[p].req.res)]
    /\ pc' = [pc EXCEPT ![p] = "store"]
    /\ UNCHANGED <<heap, refs, mu, lin, hist, raced, routes, nextUuid, crashed, Seq0, env>>

\* handleCreate: e.store[resource] = append(..., body)
Store(p) ==
    /\ ~crashed /\ pc[p] = "store"
    /\ refs' = SetKey(refs, loc[p].req.res, Append(loc[p].items, loc[p].addr))
    /\ loc' = [loc EXCEPT ![p].obs = Outcome(201, RespRecord(heap[loc[p].addr]))]
    /\ pc' = [pc EXCEPT ![p] = "unlock"]
    /\ UNCHANGED <<heap, mu, lin, hist, raced, routes, nextUuid, crashed, Seq0, env>>

\* handleUpdate, handlePatch, handleDelete: the scan for the id
Find(p) ==
    /\ ~crashed /\ pc[p] = "find"
    /\ LET req   == loc[p].req
           items == Coll(refs, req.res)
           i     == FindByID(Deref(items, heap), req.id)
           keys  == (DOMAIN req.raw.m) \ {"id"}
       IN  IF i = 0
           THEN /\ loc' = [loc EXCEPT ![p].out = Outcome(404, RespNotFound(req.res, req.id)),
                                      ![p].obs = Outcome(404, RespNotFound(req.res, req.id))]
                /\ pc' = [pc EXCEPT ![p] = "unlock"]
           ELSE IF req.op = "PATCH" /\ keys = {}
           THEN /\ loc' = [loc EXCEPT ![p].out = Outcome(200, RespRecord(heap[items[i]])),
                                      ![p].obs = Outcome(200, RespRecord(heap[items[i]]))]
                /\ pc' = [pc EXCEPT ![p] = "unlock"]
           ELSE /\ loc' = [loc EXCEPT ![p].items = items, ![p].i = i,
                                      ![p].addr = IF req.op = "PATCH" THEN items[i] ELSE @,
                                      ![p].todo = IF req.op = "PATCH" THEN keys ELSE {}]
                /\ pc' = [pc EXCEPT ![p] = CASE req.op = "PUT"    -> "replace"
                                             [] req.op = "PATCH"  -> "merge"
                                             [] req.op = "DELETE" -> "remove"]
    /\ UNCHANGED <<heap, refs, mu, lin, hist, raced, routes, nextUuid, crashed, Seq0, env>>

\* handleUpdate: body["id"] = itemID; e.store[resource][i] = body; c.JSON(body)
Replace(p) ==
    /\ ~crashed /\ pc[p] = "replace"
    /\ loc[p].addr # 0
    /\ LET l    == loc[p]
           body == SetKey(heap[l.addr], "id", heap[l.items[l.i]]["id"])
       IN  /\ l.i <= Len(Coll(refs, l.req.res))
           /\ heap' = [heap EXCEPT ![l.addr] = body]
           /\ hist' = [hist EXCEPT ![l.addr] = @ \cup {body}]
           /\ refs' = [refs EXCEPT ![l.req.res][l.i] = l.addr]
           /\ loc' = [loc EXCEPT ![p].out = Outcome(200, RespRecord(body)),
                                 ![p].obs = Outcome(200, RespRecord(body))]
    /\ pc' = [pc EXCEPT ![p] = "unlock"]
    /\ UNCHANGED <<mu, lin, raced, routes, nextUuid, crashed, Seq0, env>>

\* handlePatch: one item[k] = v of the merge loop, in the map's iteration
\* order; after the last, e.store[resource][i] = item and c.JSON(item)
MergeStep(p) ==
    /\ ~crashed /\ pc[p] = "merge"
    /\ LET l == loc[p] IN
       \E k \in l.todo :
        LET item == SetKey(heap[l.addr], k, l.req.raw.m[k])
            rest == l.todo \ {k}
        IN  /\ heap' = [heap EXCEPT ![l.addr] = item]
            /\ hist' = [hist EXCEPT ![l.addr] = @ \cup {item}]
            /\ IF rest # {}
               THEN /\ loc' = [loc EXCEPT ![p].todo = rest]
                    /\ pc' = pc
               ELSE /\ loc' = [loc EXCEPT ![p].todo = rest,
                                          ![p].out = Outcome(200, RespRecord(item)),
                                          ![p].obs = Outcome(200, RespRecord(item))]
                    /\ pc' = [pc EXCEPT ![p] = "unlock"]
    /\ UNCHANGED <<refs, mu, lin, raced, routes, nextUuid, crashed, Seq0, env>>

\* handleDelete: e.store[resource] = append(items[:i], items[i+1:]...)
Remove(p) ==
    /\ ~crashed /\ pc[p] = "remove"
    /\ refs' = SetKey(refs, loc[p].req.res, RemoveAt(loc[p].items, loc[p].i))
    /\ loc' = [loc EXCEPT ![p].out = Outcome(204, RespEmpty),
                          ![p].obs = Outcome(204, RespEmpty)]
    /\ pc' = [pc EXCEPT ![p] = "unlock"]
    /\ UNCHANGED <<heap, mu, lin, hist, raced, routes, nextUuid, crashed, Seq0, env>>

\* e.mu.Unlock(); handleCreate goes on to c.JSON(body) without the lock
Unlock(p) ==
    /\ ~crashed /\ pc[p] = "unlock"
    /\ mu' = [mu EXCEPT !.writer = NoHolder]
    /\ IF loc[p].req.op = "POST"
       THEN /\ pc' = [pc EXCEPT ![p] = "encode"]
            /\ loc' = [loc EXCEPT ![p] = BeginEncode(@, <<loc[p].addr>>)]
       ELSE /\ pc' = [pc EXCEPT ![p] = "done"]
            /\ loc' = [loc EXCEPT ![p] = Finish(@)]
    /\ UNCHANGED <<heap, refs, lin, hist, raced, routes, nextUuid, crashed, Seq0, env>>

\* Watcher.watch takes a Write or Create event of the tracked file;
\* Watcher.reload reads and decodes the file, before any lock
WatchStart ==
    /\ ~crashed /\ pc[Watcher] = "idle"
    /\ \E f \in ConcFiles :
        LET failed == f.k = "unreadable" \/ Unmarshal(f).err IN
        /\ pc' = [pc EXCEPT ![Watcher] = IF failed THEN "done" ELSE "lock"]
        /\ loc' = [q \in DOMAIN loc |->
                     IF q = Watcher
                     THEN [IdleLoc EXCEPT !.req = Req("RELOAD", "", <<>>, f),
                                          !.out = IF failed
                                                  THEN Outcome(0, RespError("reload_failed"))
                                                  ELSE NoOutcome]
                     ELSE IF failed THEN loc[q] ELSE Disturb(loc[q], q)]
    /\ UNCHANGED <<heap, refs, mu, lin, hist, raced, routes, nextUuid, crashed, Seq0, env>>

\* ReloadData: e.mu.Lock()
ReloadLock ==
    /\ ~crashed /\ pc[Watcher] = "lock"
    /\ MayLock
    /\ mu' = [mu EXCEPT !.writer = Watcher]
    /\ lin' = ReloadData(Unmarshal(loc[Watcher].req.raw).m, nextUuid).store
    /\ pc' = [pc EXCEPT ![Watcher] = "clear"]
    /\ UNCHANGED <<heap, refs, loc, hist, raced, routes, nextUuid, crashed, Seq0, env>>

\* ReloadData: e.store = make(map[string][]map[string]interface{})
ReloadClear ==
    /\ ~crashed /\ pc[Watcher] = "clear"
    /\ refs' = EmptyStore
    /\ LET keys == DOMAIN Unmarshal(loc[Watcher].req.raw).m IN
        /\ loc' = [loc EXCEPT ![Watcher].todo = keys]
        /\ pc' = [pc EXCEPT ![Watcher] = IF keys = {} THEN "unlock" ELSE "fill"]
    /\ UNCHANGED <<heap, mu, lin, hist, raced, routes, nextUuid, crashed, Seq0, env>>

\* ReloadData: one iteration of for key, value := range data, in the map's
\* iteration order
ReloadFill ==
    /\ ~crashed /\ pc[Watcher] = "fill"
    /\ \E key \in loc[Watcher].todo :
        LET value == Unmarshal(loc[Watcher].req.raw).m[key]
            r     == CASE value.t = "array"  -> normalizeItems(value.items, nextUuid)
                       [] value.t = "object" -> [items |-> <<ensureID(value.m, nextUuid + 1)>>,
                                                 n |-> nextUuid + uuidCalls(value.m)]
                       [] OTHER -> [items |-> <<>>, n |-> nextUuid]
            rest  == loc[Watcher].todo \ {key}
            new   == NewAddrs(heap, Len(r.items))
            base  == IF r.items = <<>> THEN 0 ELSE new[1] - 1
            addrs == {new[i] : i \in DOMAIN new}
        IN  /\ r.n <= MaxUuid
            /\ nextUuid' = r.n
            /\ heap' = heap @@ [a \in addrs |-> r.items[a - base]]
            /\ hist' = hist @@ [a \in addrs |-> {r.items[a - base]}]
            /\ refs' = IF value.t \in {"array", "object"}
                       THEN SetKey(refs, key, new)
                       ELSE refs
            /\ loc' = [loc EXCEPT ![Watcher].todo = rest]
            /\ pc' = [pc EXCEPT ![Watcher] = IF rest = {} THEN "unlock" ELSE "fill"]
    /\ UNCHANGED <<mu, lin, raced, routes, crashed, Seq0, env>>

\* ReloadData: the deferred e.mu.Unlock(); Watcher.watch reports the reload
ReloadUnlock ==
    /\ ~crashed /\ pc[Watcher] = "unlock"
    /\ mu' = [mu EXCEPT !.writer = NoHolder]
    /\ pc' = [pc EXCEPT ![Watcher] = "done"]
    /\ loc' = [loc EXCEPT ![Watcher] = Finish([@ EXCEPT !.out = Outcome(0, RespEmpty)])]
    /\ UNCHANGED <<heap, refs, lin, hist, raced, routes, nextUuid, crashed, Seq0, env>>

(***************************************************************************)
(* Claims on the interleavings of requests and reloads.                    *)
(***************************************************************************)
Reader(p) == loc[p].req.op \in {"LIST", "GET", "DB", "HEALTH"}
Holding(p) == mu.writer = p \/ p \in mu.readers
ReloadInside == pc[Watcher] \in {"clear", "fill", "unlock"}

\* C1: a reload is atomic for every concurrent request: what a request sees of
\* the store under its lock (GET /db and GET /health the whole store, a CRUD
\* operation the collection it addresses) is what one complete store of the
\* serial history gives, the one before the reload or the one after it, never
\* an empty, partly filled or mixed store; and no request holds the lock while
\* ReloadData is between its Lock and its Unlock.
C1_ReloadAtomic ==
    \A p \in Procs :
        /\ loc[p].obs.status # 0 => loc[p].obs = loc[p].expect
        /\ ReloadInside => ~Holding(p)

\* a GET /db that began before the reload took the lock has read the whole
\* pre-reload store while the reload waits for the lock
C1_Witness ==
    \E p \in Procs :
        /\ loc[p].req.op = "DB" /\ pc[p] = "runlock"
        /\ pc[Watcher] = "lock"
        /\ loc[p].obs = Outcome(200, RespStore(lin))
        /\ DOMAIN lin = {"users", "posts"}

\* a GET /db that waited for the reload has read the whole post-reload store
C1_WitnessAfter ==
    \E p \in Procs :
        /\ loc[p].req.op = "DB" /\ pc[p] = "runlock"
        /\ pc[Watcher] = "done" /\ ~loc[p].quiet
        /\ loc[p].obs = Outcome(200, RespStore(lin))
        /\ DOMAIN lin = {"users", "tags"}

\* C2: the slice copied by handleGetAll, and the body handleCreate encodes
\* after Unlock, are safe to read without the lock: no map is read while
\* handlePatch is inside its merge loop on it, and every encoded record is a
\* state the record had at one moment.
C2_SnapshotSafe == ~raced.read /\ ~raced.torn

\* C3: the writes are serialized: whenever no writer holds the lock, the store
\* in memory is the store that the requests and reloads which took the lock so
\* far give when applied one at a time in the order they took it.
C3_Serialized == mu.writer = NoHolder => View(refs, heap) = lin

\* two POSTs to users that ran at the same time have both returned and both
\* records are in users
C3_Witness ==
    \E p, q \in Procs :
        /\ p # q /\ pc[Watcher] = "idle"
        /\ pc[p] = "done" /\ pc[q] = "done"
        /\ loc[p].req.op = "POST" /\ loc[q].req.op = "POST"
        /\ ~loc[p].quiet /\ ~loc[q].quiet
        /\ loc[p].out.status = 201 /\ loc[q].out.status = 201
        /\ Len(refs["users"]) = 3

\* C4: a write that returned before a read began is visible to the read: a
\* GET /R, GET /R/:id or GET /db during which no write or reload was in flight
\* answers what the store left by the writes and reloads that returned before
\* it gives for R, whether R was in the store at startup or came with a reload.
C4_CompletedWriteVisible ==
    \A p \in Procs :
        pc[p] = "done" /\ Reader(p) /\ loc[p].quiet => loc[p].out = loc[p].want

\* C4, for the resources registerRoutes has registered: there the completed
\* write is visible.
C4_VisibleWhereRouted ==
    \A p \in Procs :
        /\ pc[p] = "done" /\ Reader(p) /\ loc[p].quiet
        /\ loc[p].req.op = "DB" \/ loc[p].req.res \in routes
        => loc[p].out = loc[p].want

\* a GET /users that began after a POST /users returned lists the new record
C4_Witness ==
    \E p, q \in Procs :
        /\ pc[p] = "done" /\ loc[p].req.op = "LIST" /\ loc[p].quiet
        /\ pc[q] = "done" /\ loc[q].req.op = "POST" /\ loc[q].out.status = 201
        /\ loc[p].out = Outcome(200, RespList(<<concAna, concPost>>))

NextConc ==
    \/ \E p \in Procs :
        \/ Start(p) \/ RLock(p) \/ Read(p) \/ RUnlock(p) \/ Encode(p)
        \/ Lock(p) \/ Load(p) \/ Store(p) \/ Find(p) \/ Replace(p) \/ MergeStep(p)
        \/ Remove(p) \/ Unlock(p)
    \/ WatchStart \/ ReloadLock \/ ReloadClear \/ ReloadFill \/ ReloadUnlock

SpecConc == InitConc /\ [][NextConc]_vars

\* p has written a JSON response body
Encoded(p) == loc[p].out.resp # RespEmpty

\* p is in c.JSON of handleGetAll or handleCreate
Encoding(p) == pc[p] = "encode"

\* C30: no handler holds the shared or the exclusive lock while it decodes the
\* request body or encodes the JSON response: the body is decoded before the
\* lock is taken and the response is encoded after it is released.
C30_LockOnlyInMemory ==
    \A p \in Procs : Holding(p) => (~Encoded(p) /\ ~Encoding(p))

\* C30 for the handlers that unlock before c.JSON: list, create, /health
C30_ListCreateHealth ==
    \A p \in Procs :
        (Holding(p) /\ loc[p].req.op \in {"LIST", "POST", "HEALTH"})
            => (~Encoded(p) /\ ~Encoding(p))

(***************************************************************************)
(* SpecChaosConc: the request goroutines of SpecConc behind the chaos      *)
(* middleware.                                                             *)
(***************************************************************************)
InitChaosConc ==
    /\ ConcAtRest
    /\ config \in {c \in ChaosConfigs : c.ChaosMode}
    /\ w = [filePath |-> filePath, onChange |-> "nil", state |-> "watching"]
    /\ msgs = <<>>
    /\ FsAtRest
    /\ UnitsAtRest

NextChaosConc ==
    \E p \in Procs :
        \/ ChaosSleep(p) \/ ChaosDecide(p)
        \/ Start(p) \/ RLock(p) \/ Read(p) \/ RUnlock(p) \/ Encode(p)
        \/ Lock(p) \/ Load(p) \/ Store(p) \/ Find(p) \/ Replace(p) \/ MergeStep(p)
        \/ Remove(p) \/ Unlock(p)

SpecChaosConc == InitChaosConc /\ [][NextChaosConc]_vars

\* the request of p is in the middleware, asleep or about to decide
InMiddleware(p) == config.ChaosMode /\ pc[p] \in {"idle", "decide"}

\* the request of p was short-circuited
ShortCircuitedAt(p) ==
    loc[p].out.resp.k = "error" /\ loc[p].out.resp.error = "chaos_error"

\* C25: the fault injector runs before any store access and touches neither
\* the store nor the lock: a request holds no lock while the middleware sleeps
\* and decides, the steps of the middleware leave the store and the lock as
\* they are, and a request it short-circuits has reached no route handler.
C25_InjectorBeforeStore ==
    /\ [](\A p \in Procs :
            /\ (InMiddleware(p) \/ pc[p] = "next") => ~Holding(p)
            /\ ShortCircuitedAt(p)
                 => (pc[p] = "done" /\ loc[p].req.op = "NONE" /\ ~Holding(p)))
    /\ [][\A p \in Procs :
            (InMiddleware(p) /\ pc'[p] # pc[p])
                => (heap' = heap /\ refs' = refs /\ mu' = mu /\ nextUuid' = nextUuid)]_vars

\* a request has been short-circuited while another, passed on by the
\* middleware, holds the write lock and has just appended its record
C25_Witness ==
    \E p, q \in Procs :
        /\ ShortCircuitedAt(p)
        /\ mu.writer = q /\ pc[q] = "unlock"
        /\ loc[q].req.op = "POST"
        /\ View(refs, heap) # ConcStart

(***************************************************************************)
(* SpecLive: the goroutines of SpecConc under fair scheduling, a PUT whose *)
(* body is JSON null among the requests.  A panic that nothing recovers    *)
(* ends the process: no goroutine takes a step after it.                   *)
(***************************************************************************)
\* PUT /users/1 with the body null arrives: c.BodyParser returns no error and
\* leaves body the nil map (no map is allocated); handleUpdate goes on to
\* e.mu.Lock()
StartNil(p) ==
    /\ ~crashed /\ pc[p] = "idle"
    /\ p = 1 \/ pc[p - 1] # "idle"
    /\ pc' = [pc EXCEPT ![p] = "lock"]
    /\ loc' = [q \in DOMAIN loc |->
                 IF q = p THEN [IdleLoc EXCEPT !.req = Req("PUT", "users", s1, TextNull)]
                 ELSE Disturb(loc[q], q)]
    /\ UNCHANGED <<heap, refs, mu, lin, hist, raced, routes, nextUuid, crashed, Seq0, env>>

\* handleUpdate with the nil body, the record found: body["id"] = itemID is an
\* assignment to an entry of a nil map and panics; the deferred e.mu.Unlock()
\* runs and the process ends
ReplaceNil(p) ==
    /\ ~crashed /\ pc[p] = "replace"
    /\ loc[p].addr = 0
    /\ crashed' = TRUE
    /\ mu' = [mu EXCEPT !.writer = NoHolder]
    /\ UNCHANGED <<heap, refs, pc, loc, lin, hist, raced, routes, nextUuid, Seq0, env>>

\* the steps of the request goroutine p once its handler runs
Step(p) ==
    \/ RLock(p) \/ Read(p) \/ RUnlock(p) \/ Encode(p)
    \/ Lock(p) \/ Load(p) \/ Store(p) \/ Find(p) \/ Replace(p) \/ ReplaceNil(p)
    \/ MergeStep(p) \/ Remove(p) \/ Unlock(p)

\* the steps of ReloadData in the watcher goroutine
WatcherStep == ReloadLock \/ ReloadClear \/ ReloadFill \/ ReloadUnlock

NextLive ==
    \/ \E p \in Procs : Start(p) \/ StartNil(p) \/ Step(p)
    \/ WatchStart \/ WatcherStep

\* the Go scheduler runs every goroutine that can run; requests and file
\* events need not arrive
Fairness == (\A p \in Procs : WF_vars(Step(p))) /\ WF_vars(WatcherStep)

SpecLive == InitConc /\ [][NextLive]_vars /\ Fairness

\* C32: every request whose handler has begun, and every reload, eventually
\* completes under fair scheduling, for every interleaving of readers,
\* writers and reloads: no handler and no reload keeps the lock.
C32_EveryOperationCompletes ==
    \A p \in Procs \cup {Watcher} : InFlight(p) ~> (pc[p] = "done")

\* C32 where the process lives: an operation completes unless a panic or a
\* fatal error of the run-time has ended the process
C32_CompletesUnlessCrashed ==
    \A p \in Procs \cup {Watcher} : InFlight(p) ~> (pc[p] = "done" \/ crashed)

\* C32, the locks: an operation that is over holds no lock, and so does a
\* process that a panic has ended
C32_LockReleased ==
    /\ \A p \in Procs \cup {Watcher} : pc[p] \in {"idle", "done"} => ~Holding(p)
    /\ crashed => (mu.writer = NoHolder \/ pc[mu.writer] # "replace")

\* the PUT with the nil body has panicked under the write lock while another
\* request waits for the lock
C32_Stuck ==
    \E p, q \in Procs :
        /\ crashed /\ pc[p] = "replace" /\ loc[p].addr = 0
        /\ pc[q] \in {"lock", "rlock"}

(***************************************************************************)
(* SpecFile: the tracked file is written, the notifications wait in        *)
(* w.watcher.Events, the goroutine of Watcher.watch receives and handles   *)
(* them one at a time, a client creates records meanwhile, and Stop ends   *)
(* the loop.  The loop is scheduled fairly.                                *)
(***************************************************************************)
\* what a write leaves in the tracked file
Contents == {TextBad, TextNull, TextObj(dataAna), TextObj(dataTags)}

\* the notifications that change nothing in the tracked file
OtherEvents ==
    {[name |-> Dir(filePath) \o <<"db.json">>, op |-> {"Chmod"}],
     [name |-> Dir(filePath) \o <<"notes.txt">>, op |-> {"Write"}]}

\* the notification of a write to the tracked file
WriteEvent == [name |-> filePath, op |-> {"Write"}]

\* the event makes watch call w.reload()
Attempt(event) ==
    Base(event.name) = Base(filePath) /\ event.op \cap {"Write", "Create"} # {}

\* a reload attempt is pending: its notification waits or is being handled
AttemptsPending ==
    \/ \E i \in 1..Len(events) : Attempt(events[i])
    \/ loop.pc = "handle" /\ Attempt(loop.event)

\* the engine of the file's dataset, the watcher started on the file
InitFile ==
    LET r == normalizeData(dataDup, EmptyStore, 0) IN
    /\ store = r.store
    /\ nextUuid = r.n
    /\ routes = DOMAIN r.store
    /\ crashed = FALSE
    /\ last = [req |-> "NEW",
               dirty |-> FALSE,   \* history: a record was created since the last reload
               rapid |-> FALSE]   \* history: a write came while another was pending
    /\ nops = 0
    /\ deleted = {}
    /\ loaded = DOMAIN r.store
    /\ heap = <<>> /\ refs = <<>> /\ mu = <<>> /\ pc = <<>> /\ loc = <<>>
    /\ lin = <<>> /\ hist = <<>>
    /\ raced = [read |-> FALSE, torn |-> FALSE]
    /\ config = DefaultConfig
    /\ w = [filePath |-> filePath, onChange |-> "f", state |-> "watching"]
    /\ msgs = <<>>
    /\ disk = TextObj(dataDup)
    /\ events = <<>>
    /\ loop = [pc |-> "select", event |-> NoEvent]
    /\ UnitsAtRest

\* a program writes the tracked file: the directory watch sends a Write event
FileWrite ==
    \E c \in Contents :
        /\ nops < MaxOps
        /\ disk' = c
        /\ events' = Append(events, WriteEvent)
        /\ last' = [last EXCEPT !.req = "WRITE", !.rapid = @ \/ AttemptsPending]
        /\ nops' = nops + 1
        /\ UNCHANGED <<store, routes, nextUuid, crashed, deleted, loaded, conc,
                       config, units, w, msgs, loop>>

\* something else happens in the watched directory
FileOther ==
    \E e \in OtherEvents :
        /\ nops < MaxOps
        /\ events' = Append(events, e)
        /\ last' = [last EXCEPT !.req = "OTHER"]
        /\ nops' = nops + 1
        /\ UNCHANGED <<store, routes, nextUuid, crashed, deleted, loaded, conc,
                       config, units, w, msgs, disk, loop>>

\* a client creates a record: POST /users
Post ==
    LET o == handleCreate(store, nextUuid, "users", TextObj(bodyBob)) IN
    /\ nops < MaxOps
    /\ store' = o.store
    /\ nextUuid' = o.n
    /\ last' = [last EXCEPT !.req = "POST", !.dirty = TRUE]
    /\ nops' = nops + 1
    /\ UNCHANGED <<routes, crashed, deleted, loaded, conc, env>>

\* watch, in its select: case event, ok := <-w.watcher.Events.  While Stop
\* waits, w.stop is ready as well and select takes either
Receive ==
    /\ loop.pc = "select" /\ w.state \in {"watching", "stopping"}
    /\ events # <<>>
    /\ loop' = [pc |-> "handle", event |-> Head(events)]
    /\ events' = Tail(events)
    /\ last' = [last EXCEPT !.req = "RECEIVE"]
    /\ UNCHANGED <<store, routes, nextUuid, crashed, nops, deleted, loaded, conc,
                   config, units, w, msgs, disk>>

\* watch on the event it received: the base-name test, the Write|Create test,
\* w.reload() on what the file holds now, w.onChange
HandleEvent ==
    LET r == watch(w, store, nextUuid, msgs, loop.event, disk) IN
    /\ loop.pc = "handle"
    /\ store' = r.store
    /\ nextUuid' = r.n
    /\ msgs' = r.msgs
    /\ loop' = [pc |-> "select", event |-> NoEvent]
    /\ last' = [last EXCEPT !.req = "HANDLE",
                            !.dirty = @ /\ (~Attempt(loop.event) \/ r.err)]
    /\ loaded' = IF Attempt(loop.event) /\ ~r.err THEN DOMAIN r.store ELSE loaded
    /\ UNCHANGED <<routes, crashed, nops, deleted, conc, config, units, w, disk, events>>

\* Stop: close(w.stop); Stop goes on to w.wg.Wait()
StopClose ==
    /\ w.state = "watching"
    /\ w' = [w EXCEPT !.state = "stopping"]
    /\ last' = [last EXCEPT !.req = "STOP"]
    /\ UNCHANGED <<store, routes, nextUuid, crashed, nops, deleted, loaded, conc,
                   config, units, msgs, fsys>>

\* watch, in its select: case <-w.stop: return, and the deferred w.wg.Done()
LoopExit ==
    /\ loop.pc = "select" /\ w.state = "stopping"
    /\ loop' = [pc |-> "exited", event |-> NoEvent]
    /\ last' = [last EXCEPT !.req = "EXIT"]
    /\ UNCHANGED <<store, routes, nextUuid, crashed, nops, deleted, loaded, conc,
                   config, units, w, msgs, disk, events>>

\* Stop returning where it does not wait for watch
StopReturnEarly ==
    /\ w.state = "stopping"
    /\ w' = [w EXCEPT !.state = "stopped"]
    /\ last' = [last EXCEPT !.req = "STOPPED"]
    /\ UNCHANGED <<store, routes, nextUuid, crashed, nops, deleted, loaded, conc,
                   config, units, msgs, fsys>>

\* Stop: w.wg.Wait() returns once watch has returned; w.watcher.Close(); return
StopReturn ==
    /\ w.state = "stopping" /\ loop.pc = "exited"
    /\ w' = [w EXCEPT !.state = "stopped"]
    /\ last' = [last EXCEPT !.req = "STOPPED"]
    /\ UNCHANGED <<store, routes, nextUuid, crashed, nops, deleted, loaded, conc,
                   config, units, msgs, fsys>>

NextFile ==
    \/ FileWrite \/ FileOther \/ Post
    \/ Receive \/ HandleEvent
    \/ StopClose \/ LoopExit \/ StopReturn

\* the goroutine of watch runs when it can: a notification that waits is
\* received and handled
SpecFile == InitFile /\ [][NextFile]_vars /\ WF_vars(Receive) /\ WF_vars(HandleEvent)

\* the store is what ingesting the file's content gives, where the file holds a
\* JSON object and no record was created since the last reload
Converged == (disk.k = "object" /\ ~last.dirty) => Ingested(disk.m, store)

\* C36: each Write or Create notification of the tracked file gives one
\* reload attempt on what the file holds when the notification is handled:
\* whenever no attempt is pending, the file holds a JSON object and no record
\* was created since, the store is the normalization of the file's content;
\* and while the watcher runs, however many writes came in a row, that state
\* is reached and kept once the writes have ended.
C36_StoreConverges ==
    /\ [](~AttemptsPending => Converged)
    /\ ([](w.state = "watching") => <>[](~AttemptsPending /\ Converged))

\* writes came in a row, all are handled, and the store holds the last content
C36_Witness ==
    /\ last.req = "HANDLE" /\ last.rapid /\ ~last.dirty
    /\ ~AttemptsPending
    /\ disk.k = "object" /\ disk # TextObj(dataDup)
    /\ Ingested(disk.m, store)
    /\ Len(msgs) >= 2

\* C37: Stop returns only after watch has returned, any reload in progress
\* finished; once Stop has returned no notification, pending or new, is
\* received, no reload runs and no status message is sent: only a request
\* changes the store.
C37_StopIsFinal ==
    /\ [](w.state = "stopped" => loop.pc = "exited")
    /\ [][w.state = "stopped"
            => /\ msgs' = msgs /\ loop' = loop
               /\ Len(events') >= Len(events)
               /\ (store' # store => last'.req = "POST")]_vars

\* Stop has returned after a reload that ran while it waited; a write of a
\* dataset that the store does not hold is pending and stays so
C37_Witness ==
    /\ w.state = "stopped"
    /\ Len(msgs) >= 1
    /\ \E i \in 1..Len(events) : Attempt(events[i])
    /\ disk.k = "object" /\ ~Ingested(disk.m, store)

\* Stop waits while watch runs the reload of a notification it had received
C37_WitnessInProgress ==
    /\ w.state = "stopping"
    /\ loop.pc = "handle" /\ Attempt(loop.event)
    /\ disk.k = "object" /\ ~Ingested(disk.m, store)

(***************************************************************************)
(* SpecStore: Engine.store as Go holds it.  A collection is a slice: a     *)
(* header [arr, len] on a backing array whose length is the capacity.      *)
(* GetStore copies the headers; the arrays stay shared.                    *)
(***************************************************************************)
\* the nil slice, e.store[resource] where the key is absent
NilSlice == [arr |-> <<0, "">>, len |-> 0]

\* cap(s), s[0:len(s)]
Cap(arrs, sl) == IF sl.arr \in DOMAIN arrs THEN Len(arrs[sl.arr]) ELSE 0
SliceView(arrs, sl) == IF sl.arr \in DOMAIN arrs THEN SubSeq(arrs[sl.arr], 1, sl.len) ELSE <<>>

\* the record sequences that a map of slice headers shows
StoreView(arrs, sls) == [r \in DOMAIN sls |-> SliceView(arrs, sls[r])]

\* the address of the next allocation for key: <<epoch, key>>
NextEpoch(arrs) ==
    IF DOMAIN arrs = {} THEN 1
    ELSE 1 + (CHOOSE g \in {a[1] : a \in DOMAIN arrs} : \A a \in DOMAIN arrs : a[1] <= g)

\* an array of cap elements that begins with items, the rest zero values
Pad(items, cap) == items \o [i \in 1..(cap - Len(items)) |-> EmptyObj]

\* make([]map[string]interface{}, 0, len(v)) and the appends of the ingestion
\* loop, []map[string]interface{}{v} for an object: the arrays and the headers
\* of the store st ingested from data
IngestSlices(data, st, arrs) ==
    LET g      == NextEpoch(arrs)
        cap(k) == IF data[k].t = "array" THEN Len(data[k].items) ELSE 1
    IN  [arrays |-> arrs @@ [a \in {<<g, k>> : k \in DOMAIN st} |-> Pad(st[a[2]], cap(a[2]))],
         slices |-> [k \in DOMAIN st |-> [arr |-> <<g, k>>, len |-> Len(st[k])]]]

\* append(s, x): in place where the capacity allows, else into a new array of
\* twice the capacity
GoAppend(arrs, sl, x, key) ==
    IF sl.len < Cap(arrs, sl)
    THEN [arrays |-> [arrs EXCEPT ![sl.arr][sl.len + 1] = x],
          slice  |-> [sl EXCEPT !.len = @ + 1]]
    ELSE LET a      == <<NextEpoch(arrs), key>>
             newcap == IF Cap(arrs, sl) = 0 THEN 1 ELSE 2 * Cap(arrs, sl)
         IN  [arrays |-> arrs @@ (a :> Pad(Append(SliceView(arrs, sl), x), newcap)),
              slice  |-> [arr |-> a, len |-> sl.len + 1]]

\* append(items[:i], items[i+1:]...), i from 1: the elements after i move one
\* place down inside the same array, the last place keeps what it held
GoRemove(arrs, sl, i, key) ==
    [arrays |-> [arrs EXCEPT ![sl.arr] =
                    [j \in 1..Len(@) |-> IF j >= i /\ j < sl.len THEN @[j + 1] ELSE @[j]]],
     slice  |-> [sl EXCEPT !.len = @ - 1]]

\* no call of GetStore yet
NoSnap == <<>>

InitStore ==
    \E data \in {dataDup, dataTags} :
        LET r == normalizeData(data, EmptyStore, 0)
            m == IngestSlices(data, r.store, <<>>)
        IN  /\ store = r.store
            /\ nextUuid = r.n
            /\ routes = DOMAIN r.store
            /\ crashed = FALSE
            /\ last = [req |-> "NEW",
                       taken |-> EmptyStore, \* history: the store when GetStore was called
                       deleted |-> FALSE]    \* history: a DELETE was answered 204
            /\ nops = 0
            /\ deleted = {}
            /\ loaded = DOMAIN r.store
            /\ heap = <<>> /\ refs = <<>> /\ mu = <<>> /\ pc = <<>> /\ loc = <<>>
            /\ lin = <<>> /\ hist = <<>>
            /\ raced = [read |-> FALSE, torn |-> FALSE]
            /\ config = DefaultConfig
            /\ w = [filePath |-> filePath, onChange |-> "nil", state |-> "watching"]
            /\ msgs = <<>>
            /\ FsAtRest
            /\ arrays = m.arrays /\ slices = m.slices /\ snap = NoSnap
            /\ model = <<>> /\ gen = <<>>

\* e.GetStore(): a new map, copy[k] = v for every key
GetStore ==
    /\ nops < MaxOps
    /\ snap' = [k \in DOMAIN slices |-> slices[k]]
    /\ last' = [last EXCEPT !.req = "GETSTORE", !.taken = StoreView(arrays, slices)]
    /\ nops' = nops + 1
    /\ UNCHANGED <<store, routes, nextUuid, crashed, deleted, loaded, conc,
                   config, w, msgs, fsys, arrays, slices, model, gen>>

\* handleCreate: e.store[resource] = append(e.store[resource], body)
StoreCreate ==
    \E r \in routes :
        LET o  == handleCreate(store, nextUuid, r, TextObj(bodyBob))
            sl == IF r \in DOMAIN slices THEN slices[r] ELSE NilSlice
            m  == GoAppend(arrays, sl, o.resp.m, r)
        IN  /\ nops < MaxOps
            /\ store' = o.store
            /\ nextUuid' = o.n
            /\ arrays' = m.arrays
            /\ slices' = SetKey(slices, r, m.slice)
            /\ last' = [last EXCEPT !.req = "POST"]
            /\ nops' = nops + 1
            /\ UNCHANGED <<routes, crashed, deleted, loaded, conc,
                           config, w, msgs, fsys, snap, model, gen>>

\* handleDelete: e.store[resource] = append(items[:i], items[i+1:]...)
StoreDelete ==
    \E r \in routes : \E id \in PathIDs(store, r) :
        LET o  == handleDelete(store, nextUuid, r, id)
            i  == FindByID(Coll(store, r), id)
        IN  /\ nops < MaxOps
            /\ store' = o.store
            /\ IF i > 0
               THEN LET m == GoRemove(arrays, slices[r], i, r) IN
                    /\ arrays' = m.arrays
                    /\ slices' = [slices EXCEPT ![r] = m.slice]
               ELSE UNCHANGED <<arrays, slices>>
            /\ last' = [last EXCEPT !.req = "DELETE", !.deleted = @ \/ i > 0]
            /\ nops' = nops + 1
            /\ UNCHANGED <<routes, nextUuid, crashed, deleted, loaded, conc,
                           config, w, msgs, fsys, snap, model, gen>>

\* ReloadData: e.store = make(...) and the ingestion loop
StoreReload ==
    \E data \in {dataAna, dataTags} :
        LET r == ReloadData(data, nextUuid)
            m == IngestSlices(data, r.store, arrays)
        IN  /\ nops < MaxOps
            /\ store' = r.store
            /\ nextUuid' = r.n
            /\ arrays' = m.arrays
            /\ slices' = m.slices
            /\ loaded' = DOMAIN r.store
            /\ last' = [last EXCEPT !.req = "RELOAD"]
            /\ nops' = nops + 1
            /\ UNCHANGED <<routes, crashed, deleted, conc,
                           config, w, msgs, fsys, snap, model, gen>>

NextStore == GetStore \/ StoreCreate \/ StoreDelete \/ StoreReload

SpecStore == InitStore /\ [][NextStore]_vars

\* the slices are the store: the memory model agrees with the handlers
SlicesAreStore == StoreView(arrays, slices) = store

\* C38: the value GetStore returned keeps, for every resource, the record
\* sequence the store had at the call, whatever POST, DELETE and reload
\* operations came later.
C38_GetStoreIsCopy ==
    snap # NoSnap => StoreView(arrays, snap) = last.taken

\* C38 where no DELETE removed a record: POST and reload leave the returned
\* value as it was
C38_CopyUnlessDelete ==
    (snap # NoSnap /\ ~last.deleted) => StoreView(arrays, snap) = last.taken

\* a DELETE after GetStore has moved the records of the returned value
C38_Moved ==
    /\ snap # NoSnap /\ last.req = "DELETE"
    /\ \E r \in DOMAIN snap : SliceView(arrays, snap[r]) # last.taken[r]

\* a POST and a reload after GetStore, the returned value as it was
C38_Kept ==
    /\ snap # NoSnap /\ ~last.deleted /\ last.req = "RELOAD"
    /\ StoreView(arrays, snap) = last.taken
    /\ store # last.taken /\ nops = MaxOps

(***************************************************************************)
(* SpecDash: the dashboard of internal/tui.  Bubble Tea hands the model    *)
(* one message at a time to Model.Update and keeps the model it returns.   *)
(* A RequestLog carries its arrival number as its Time.                    *)
(***************************************************************************)

\* dashboard.go: "Keep only last 100 rows to prevent memory issues"
KeepRows == 100

\* RequestLog messages sent in one run
MaxLogs == 102

\* the first MaxKinds logs are of any kind, the later ones are GET 200
MaxKinds == 2

LogKinds ==
    {<<"GET", 200>>, <<"POST", 201>>, <<"PUT", 400>>,
     <<"PATCH", 200>>, <<"DELETE", 404>>, <<"HEAD", 500>>}

KindsAt(n) == IF n <= MaxKinds THEN LogKinds ELSE {<<"GET", 200>>}

Keys == {"q", "c", "x"}

WindowSizes == {<<80, 24>>, <<40, 8>>}

\* Stats{}
ZeroStats ==
    [TotalRequests |-> 0, GetCount |-> 0, PostCount |-> 0, PutCount |-> 0,
     PatchCount |-> 0, DeleteCount |-> 0, ErrorCount |-> 0]

\* NewModel: no rows, zero stats, a table of height 15
NewModel ==
    [rows |-> <<>>,
     table |-> [rows |-> <<>>, height |-> 15, width |-> 0],
     stats |-> ZeroStats,
     width |-> 0, height |-> 0,
     quitting |-> FALSE]

\* createRow: the cells of one log (time, method, status)
createRow(log) == <<log.Time, log.Method, log.StatusCode>>

\* the "Update stats" part of Update's RequestLog case
CountLog(stats, log) ==
    LET t == [stats EXCEPT !.TotalRequests = @ + 1]
        c == IF log.Method = "GET" THEN [t EXCEPT !.GetCount = @ + 1]
             ELSE IF log.Method = "POST" THEN [t EXCEPT !.PostCount = @ + 1]
             ELSE IF log.Method = "PUT" THEN [t EXCEPT !.PutCount = @ + 1]
             ELSE IF log.Method = "PATCH" THEN [t EXCEPT !.PatchCount = @ + 1]
             ELSE IF log.Method = "DELETE" THEN [t EXCEPT !.DeleteCount = @ + 1]
             ELSE t
    IN  IF log.StatusCode >= 400 THEN [c EXCEPT !.ErrorCount = @ + 1] ELSE c

\* Update with m.rows = m.rows[:100] in place of m.rows[len(m.rows)-100:]
ModelUpdateKeepFirst(m, msg) ==
    IF msg.type = "RequestLog"
    THEN LET appended == Append(m.rows, createRow(msg))
             rows == IF Len(appended) > KeepRows
                     THEN SubSeq(appended, 1, KeepRows)
                     ELSE appended
         IN  [m EXCEPT !.stats = CountLog(m.stats, msg),
                       !.rows = rows, !.table.rows = rows]
    ELSE IF msg.type = "KeyMsg" /\ msg.key = "c"
    THEN [m EXCEPT !.rows = <<>>, !.table.rows = <<>>, !.stats = ZeroStats]
    ELSE m

\* Model.Update: the model it returns
ModelUpdate(m, msg) ==
    IF msg.type = "KeyMsg"
    THEN IF msg.key \in {"q", "ctrl+c", "esc"}
         THEN [m EXCEPT !.quitting = TRUE]
         ELSE IF msg.key = "c"
         THEN [m EXCEPT !.rows = <<>>, !.table.rows = <<>>, !.stats = ZeroStats]
         ELSE m
    ELSE IF msg.type = "WindowSizeMsg"
    THEN LET tableHeight == IF msg.Height - 10 < 5 THEN 5 ELSE msg.Height - 10
         IN  [m EXCEPT !.width = msg.Width, !.height = msg.Height,
                       !.table.height = tableHeight,
                       !.table.width = msg.Width - 4]
    ELSE LET appended == Append(m.rows, createRow(msg))
             rows == IF Len(appended) > KeepRows
                     THEN SubSeq(appended, Len(appended) - KeepRows + 1, Len(appended))
                     ELSE appended
         IN  [m EXCEPT !.stats = CountLog(m.stats, msg),
                       !.rows = rows, !.table.rows = rows]

\* the RequestLog sent as the n-th
LogAt(n, kind) ==
    [type |-> "RequestLog", Time |-> n, Method |-> kind[1], StatusCode |-> kind[2]]

NoWipe == [rows |-> 0, errors |-> 0]

InitDash ==
    /\ store = EmptyStore
    /\ nextUuid = 0
    /\ routes = {}
    /\ crashed = FALSE
    /\ last = [msg |-> "NEW",
               cleared |-> 0,      \* history: the logs sent before the last clear
               wiped |-> NoWipe]   \* history: what the clear key found, [rows, errors]
    /\ nops = 0
    /\ deleted = {}
    /\ loaded = {}
    /\ heap = <<>> /\ refs = <<>> /\ mu = <<>> /\ pc = <<>> /\ loc = <<>>
    /\ lin = <<>> /\ hist = <<>>
    /\ raced = [read |-> FALSE, torn |-> FALSE]
    /\ config = DefaultConfig
    /\ w = [filePath |-> filePath, onChange |-> "nil", state |-> "new"]
    /\ msgs = <<>>
    /\ FsAtRest
    /\ arrays = <<>> /\ slices = <<>> /\ snap = <<>>
    /\ model = NewModel
    /\ gen = <<>>

\* the server's logger sends a RequestLog; Update handles it
SendLog ==
    \E kind \in KindsAt(nops + 1) :
        LET log == LogAt(nops + 1, kind)
        IN  /\ ~model.quitting
            /\ nops < MaxLogs
            /\ model' = ModelUpdate(model, log)
            /\ last' = [last EXCEPT !.msg = "RequestLog", !.wiped = NoWipe]
            /\ nops' = nops + 1
            /\ UNCHANGED <<store, routes, nextUuid, crashed, deleted, loaded, conc,
                           config, w, msgs, fsys, arrays, slices, snap, gen>>

\* a key is pressed; Update handles the tea.KeyMsg
PressKey ==
    \E key \in Keys :
        /\ ~model.quitting
        /\ model' = ModelUpdate(model, [type |-> "KeyMsg", key |-> key])
        /\ last' = [last EXCEPT !.msg = key,
                                !.cleared = IF key = "c" THEN nops ELSE @,
                                !.wiped = IF key = "c"
                                          THEN [rows |-> Len(model.rows),
                                                errors |-> model.stats.ErrorCount]
                                          ELSE NoWipe]
        /\ UNCHANGED <<store, routes, nextUuid, crashed, nops, deleted, loaded, conc,
                       config, w, msgs, fsys, arrays, slices, snap, gen>>

\* the terminal is resized; Update handles the tea.WindowSizeMsg
Resize ==
    \E size \in WindowSizes :
        /\ ~model.quitting
        /\ model' = ModelUpdate(model, [type |-> "WindowSizeMsg",
                                        Width |-> size[1], Height |-> size[2]])
        /\ last' = [last EXCEPT !.msg = "WindowSizeMsg", !.wiped = NoWipe]
        /\ UNCHANGED <<store, routes, nextUuid, crashed, nops, deleted, loaded, conc,
                       config, w, msgs, fsys, arrays, slices, snap, gen>>

NextDash == SendLog \/ PressKey \/ Resize

SpecDash == InitDash /\ [][NextDash]_vars

\* the logs sent since the last clear
SinceClear == nops - last.cleared

\* C39: the dashboard holds at most 100 rows, and they are the rows of the
\* most recent logs sent since the last clear, in arrival order; the clear
\* key leaves no rows and every counter at zero.
C39_LastHundredRows ==
    LET k == Len(model.rows) IN
    /\ k <= KeepRows
    /\ k = IF SinceClear < KeepRows THEN SinceClear ELSE KeepRows
    /\ \A i \in 1..k :
           \E kind \in KindsAt(nops - k + i) :
               model.rows[i] = createRow(LogAt(nops - k + i, kind))
    /\ model.table.rows = model.rows
    /\ last.msg = "c" => /\ model.rows = <<>>
                         /\ model.stats = ZeroStats

\* more than 100 logs were sent after a clear, and the oldest are gone
C39_Witness ==
    /\ last.cleared > 0
    /\ SinceClear > KeepRows
    /\ Len(model.rows) = KeepRows
    /\ model.rows[1][1] = nops - KeepRows + 1
    /\ model.height = 8

\* the clear key was pressed on a dashboard with rows and counted errors
C39_WitnessClear ==
    /\ last.msg = "c"
    /\ last.wiped.rows > 0
    /\ last.wiped.errors > 0
    /\ model.rows = <<>>

(***************************************************************************)
(* SpecGen: the generator's ExpandData as runServe calls it on the parsed  *)
(* file, with the --count flag.  What gofakeit and uuid return is drawn.   *)
(***************************************************************************)

\* the largest --count given
MaxCount == 2

\* the values one call of a gofakeit function may return
GenDraws == {1, 2}

genTwo   == [users |-> TArr(<<TObj([id |-> JNum(s1), name |-> JStr(sAna)]),
                              TObj([name |-> JStr(sBob), age |-> JNum(s30)])>>),
             tags  |-> TArr(<<TObj([role |-> JStr(sAdm)]), TScalar>>)]
genMixed == [users |-> TArr(<<TScalar, TObj([name |-> JStr(sAna)])>>),
             tags  |-> TArr(<<TObj([age |-> JNum(s30)])>>),
             posts |-> TArr(<<>>),
             meta  |-> TObj([name |-> JStr(sBob)]),
             note  |-> TScalar]
genBare  == [users |-> TArr(<<TObj(EmptyObj), TObj([id |-> JStr(s1)])>>)]

GenDatasets == {genTwo, genMixed, genBare, dataTags}

\* InferFieldType on the field names of the datasets: the first of
\* fieldPatterns that matches ("role" matches none)
InferFieldType(fieldName) ==
    IF fieldName = "id" THEN "FieldTypeID"
    ELSE IF fieldName = "name" THEN "FieldTypeName"
    ELSE IF fieldName = "age" THEN "FieldTypeNumber"
    ELSE "FieldTypeUnknown"

\* GenerateValue: a uuid string, a name, an int or a word
GenerateValue(fieldType, draw) ==
    IF fieldType = "FieldTypeID" THEN JStr(uuidString(draw))
    ELSE IF fieldType = "FieldTypeName" THEN JStr(IF draw = 1 THEN sAna ELSE sBob)
    ELSE IF fieldType = "FieldTypeNumber"
    THEN [t |-> "int", v |-> IF draw = 1 THEN s1 ELSE s30]
    ELSE JStr(IF draw = 1 THEN sAdm ELSE sNil)

\* GenerateFromSample: count items, each with the schema's fields
GenerateFromSample(sample, countPerResource, draws) ==
    [i \in 1..countPerResource |->
        [fieldName \in DOMAIN sample |->
            GenerateValue(InferFieldType(fieldName), draws[i][fieldName])]]

\* v is []interface{}, len(v) > 0 and v[0] is a map
Expandable(v) == v.t = "array" /\ Len(v.items) > 0 /\ v.items[1].t = "object"

ExpandableKeys(data) == {key \in DOMAIN data : Expandable(data[key])}

\* the calls of GenerateValue that ExpandData makes: <<key, item, field name>>
GenerateCalls(data, countPerResource) ==
    UNION {{<<key, i, fieldName>> : i \in 1..countPerResource,
                                    fieldName \in DOMAIN data[key].items[1].m} :
           key \in ExpandableKeys(data)}

\* what the calls made for one key draw
DrawsOf(pick, key, sample, countPerResource) ==
    [i \in 1..countPerResource |->
        [fieldName \in DOMAIN sample |-> pick[<<key, i, fieldName>>]]]

\* ExpandData with items = generated, the originals left out
ExpandDataGeneratedOnly(data, countPerResource, pick) ==
    [data |-> data,
     expanded |->
        [key \in DOMAIN data |->
            IF Expandable(data[key])
            THEN LET generated == GenerateFromSample(data[key].items[1].m, countPerResource,
                            DrawsOf(pick, key, data[key].items[1].m, countPerResource))
                 IN  TArr([i \in 1..countPerResource |-> TObj(generated[i])])
            ELSE data[key]]]

\* ExpandData: [data: the argument after the call, expanded: the map returned]
ExpandData(data, countPerResource, pick) ==
    [data |-> data,
     expanded |->
        [key \in DOMAIN data |->
            IF Expandable(data[key])
            THEN LET v == data[key].items
                     generated == GenerateFromSample(v[1].m, countPerResource,
                                     DrawsOf(pick, key, v[1].m, countPerResource))
                     items == v \o [i \in 1..countPerResource |-> TObj(generated[i])]
                 IN  TArr(items)
            ELSE data[key]]]

NoOut == <<>>

InitGen ==
    \E data \in GenDatasets : \E n \in 0..MaxCount :
        /\ store = EmptyStore
        /\ nextUuid = 0
        /\ routes = {}
        /\ crashed = FALSE
        /\ last = [req |-> "NEW",
                   input |-> data,      \* history: the dataset as parsed
                   called |-> FALSE]    \* history: ExpandData was called
        /\ nops = 0
        /\ deleted = {}
        /\ loaded = {}
        /\ heap = <<>> /\ refs = <<>> /\ mu = <<>> /\ pc = <<>> /\ loc = <<>>
        /\ lin = <<>> /\ hist = <<>>
        /\ raced = [read |-> FALSE, torn |-> FALSE]
        /\ config = DefaultConfig
        /\ w = [filePath |-> filePath, onChange |-> "nil", state |-> "new"]
        /\ msgs = <<>>
        /\ FsAtRest
        /\ arrays = <<>> /\ slices = <<>> /\ snap = <<>>
        /\ model = <<>>
        /\ gen = [data |-> data, count |-> n, out |-> NoOut]

\* runServe: if count > 0 { data = generator.ExpandData(data, count) }
runServe ==
    /\ gen.out = NoOut
    /\ IF gen.count > 0
       THEN \E pick \in [GenerateCalls(gen.data, gen.count) -> GenDraws] :
                LET r == ExpandData(gen.data, gen.count, pick)
                IN  /\ gen' = [gen EXCEPT !.data = r.data, !.out = r.expanded]
                    /\ last' = [last EXCEPT !.req = "SERVE", !.called = TRUE]
       ELSE /\ gen' = [gen EXCEPT !.out = gen.data]
            /\ last' = [last EXCEPT !.req = "SERVE"]
    /\ nops' = nops + 1
    /\ UNCHANGED <<store, routes, nextUuid, crashed, deleted, loaded, conc,
                   config, w, msgs, fsys, arrays, slices, snap, model>>

NextGen == runServe

SpecGen == InitGen /\ [][NextGen]_vars

C40_WitnessNotObject ==
    /\ last.called
    /\ \E key \in DOMAIN gen.out :
           /\ last.input[key].t = "array"
           /\ Len(last.input[key].items) > 1
           /\ ~Expandable(last.input[key])
           /\ gen.out[key] = last.input[key]
    /\ \E key \in DOMAIN gen.out :
           /\ Expandable(last.input[key])
           /\ Len(gen.out[key].items) = 1 + gen.count


====
